---- MODULE Spec2Model ----
(***************************************************************************)
(* Ledger core of the brokerage application: the Firestore collections     *)
(* advanceClients, workClients and entities, the React state that mirrors  *)
(* them through onSnapshot listeners, and the handlers that mutate them    *)
(* (lots, entities, payments, settlement) together with the commission     *)
(* reconciliation syncBuyerCommission.                                     *)
(*                                                                         *)
(* Money is kept in thousandths of a currency unit so that the 0.5%        *)
(* commission is exact: an amount a of the program is the integer 1000*a.  *)
(* An identifier made from Date.now() is compared only with the ones of    *)
(* the list it is appended to, so it is modelled as the least identifier   *)
(* that list does not hold; the document ids that addDoc invents are drawn *)
(* from counters.                                                          *)
(***************************************************************************)
EXTENDS Integers, Sequences, FiniteSets, TLC

\* ---------------------------------------------------------------- bounds
MaxClients == 2
MaxWorkClients == 1
MaxLots == 2
MaxTx == 3
MaxEntities == 1
MaxEntityIds == 1

\* ---------------------------------------------------------------- inputs
BuyerNames == {"", "A", "B"}
ClientNames == {"A", "B"}
LotInputs == {[totalValue |-> 0, value30 |-> 0], [totalValue |-> 10000, value30 |-> 3000]}
AuctionDates == {1}
PaymentAmounts == {300, -300}

PayerNames == {"P"}
PurchaseAmounts == {500}
Today == 9

\* commission = totalValue * 0.005, in thousandths: totalValue * 5
CommissionPerMille == 5

NoId == 0

Money(a) == a * 1000

Abs(x) == IF x < 0 THEN -x ELSE x

\* ---------------------------------------------------------------- lists
\* Array.prototype.reduce((sum, x) => sum + x, 0) over a list of numbers
Sum(values) ==
    LET acc[i \in 0..Len(values)] == IF i = 0 THEN 0 ELSE acc[i-1] + values[i]
    IN  acc[Len(values)]

\* Array.prototype.findIndex, given the indices the predicate holds at: the first
\* of them, 1-based, 0 when there is none
FindIndex(indices) ==
    IF indices = {} THEN 0 ELSE CHOOSE i \in indices : \A j \in indices : i <= j

InsertAt(s, pos, x) == SubSeq(s, 1, pos - 1) \o <<x>> \o SubSeq(s, pos, Len(s))

HasId(s, id) == \E i \in 1..Len(s) : s[i].id = id

\* `${Date.now()}` as the id of an element appended to s: an id no element of s has
NextId(s) ==
    LET used == {s[i].id : i \in 1..Len(s)}
    IN  CHOOSE m \in 1..(Len(s) + 1) : m \notin used /\ \A n \in 1..(m - 1) : n \in used

\* Array.prototype.find by id; only used where HasId holds
FindById(s, id) == s[FindIndex({i \in 1..Len(s) : s[i].id = id})]

\* updateDoc(doc(db, collection, id), fields): the fields named replace the
\* document's, the others stay
UpdateDoc(coll, id, fields) ==
    [i \in 1..Len(coll) |->
        IF coll[i].id = id
        THEN [k \in DOMAIN coll[i] |->
                 IF k \in DOMAIN fields THEN fields[k] ELSE coll[i][k]]
        ELSE coll[i]]

\* ---------------------------------------------------------------- records
NewTransaction(id, amount, notes, date, isSettled, entityId) ==
    [id |-> id, amount |-> amount, notes |-> notes, date |-> date,
     isSettled |-> isSettled, entityId |-> entityId]

NewClient(id, name, transactions, isBuyer) ==
    [id |-> id, name |-> name, transactions |-> transactions, isBuyer |-> isBuyer,
     isArchived |-> FALSE, archiveType |-> "absent"]

\* the magnitudes summed instead of the signed amounts
BalanceOfMagnitudes(transactions) ==
    Sum([i \in 1..Len(transactions) |-> Abs(transactions[i].amount)])

\* the balance shown on a client card
Balance(transactions) ==
    Sum([i \in 1..Len(transactions) |-> transactions[i].amount])

\* ---------------------------------------------------------------- commission
\* the filter on isArchived forgotten
AllLots(lots) == lots

ActiveLots(lots) == SelectSeq(lots, LAMBDA l : ~l.isArchived)

ActiveValue(lots) ==
    LET activeLots == ActiveLots(lots)
    IN  Sum([i \in 1..Len(activeLots) |-> activeLots[i].totalValue])

\* one percent taken instead of half a percent
CommissionOnePercent(lots) == ActiveValue(lots) * 10

Commission(lots) == ActiveValue(lots) * CommissionPerMille

CommissionNotes(auctionDate) == [text |-> "commission", date |-> auctionDate]

PlainNotes(text) == [text |-> text, date |-> 0]

\* a write is the failAt-th write of the running handler, or its document is gone
WriteOk(coll, id, w, failAt) == w + 1 # failAt /\ HasId(coll, id)

\* the transaction found taken out and a rewritten one put at the end
UpdateCommissionAtEnd(db, client, transactionIndex, entityData) ==
    UpdateDoc(db, client.id,
              [transactions |->
                   Append(SelectSeq(client.transactions,
                                    LAMBDA t : t.id # client.transactions[transactionIndex].id),
                          [client.transactions[transactionIndex]
                              EXCEPT !.amount = -Commission(entityData.lots),
                                     !.date = entityData.auctionDate,
                                     !.notes = CommissionNotes(entityData.auctionDate),
                                     !.isSettled = TRUE]),
               isBuyer |-> TRUE])

\* Case A with a positive commission: the transaction found is rewritten in place
UpdateCommission(db, client, transactionIndex, entityData) ==
    UpdateDoc(db, client.id,
              [transactions |->
                   [client.transactions EXCEPT ![transactionIndex] =
                       [@ EXCEPT !.amount = -Commission(entityData.lots),
                                 !.date = entityData.auctionDate,
                                 !.notes = CommissionNotes(entityData.auctionDate),
                                 !.isSettled = TRUE]],
               isBuyer |-> TRUE])

\* the stale transaction left where it is
KeepCommission(db, client, entityId) == db

\* the transaction set to 0 instead of removed
ZeroCommission(db, client, entityId) ==
    UpdateDoc(db, client.id,
              [transactions |->
                   [k \in 1..Len(client.transactions) |->
                       IF client.transactions[k].entityId = entityId
                       THEN [client.transactions[k] EXCEPT !.amount = 0]
                       ELSE client.transactions[k]]])

\* the whole list of the client dropped with the stale transaction
RemoveCommissionClearing(db, client, entityId) ==
    UpdateDoc(db, client.id, [transactions |-> <<>>])

\* Case A with no commission, and Case B: the client's list without the entity's
\* transactions
RemoveCommission(db, client, entityId) ==
    UpdateDoc(db, client.id,
              [transactions |->
                   SelectSeq(client.transactions, LAMBDA t : t.entityId # entityId)])

\* step 2 of syncBuyerCommission: the loop over the clients state, from client i on;
\* db is the advanceClients collection after the first w writes of the handler
RECURSIVE ScanClients(_, _, _, _, _, _)
ScanClients(snap, i, db, w, entityData, failAt) ==
    IF i > Len(snap) THEN [db |-> db, w |-> w, status |-> "scanned"]
    ELSE
    LET client == snap[i]
        entityId == entityData.id
        commission == Commission(entityData.lots)
        transactionIndex == FindIndex({k \in 1..Len(client.transactions) :
                                          client.transactions[k].entityId = entityId})
        ok == WriteOk(db, client.id, w, failAt)
    IN  IF transactionIndex = 0 THEN ScanClients(snap, i + 1, db, w, entityData, failAt)
        ELSE IF ~ok THEN [db |-> db, w |-> w, status |-> "failed"]
        ELSE IF client.name = entityData.buyerName
        THEN IF commission > 0
             THEN [db |-> UpdateCommission(db, client, transactionIndex, entityData),
                   w |-> w + 1, status |-> "returned"]
             ELSE [db |-> RemoveCommission(db, client, entityId),
                   w |-> w + 1, status |-> "returned"]
        ELSE ScanClients(snap, i + 1, RemoveCommission(db, client, entityId),
                         w + 1, entityData, failAt)

\* step 3 without the guard on buyerName
AddCommissionUnguarded(scan, snap, entityData, failAt, docId, pos) ==
    LET commission == Commission(entityData.lots)
        buyerName == entityData.buyerName
        buyerIndex == FindIndex({k \in 1..Len(snap) : snap[k].name = buyerName})
        buyerTransactions == IF buyerIndex # 0 THEN snap[buyerIndex].transactions ELSE <<>>
        newTransaction == NewTransaction(NextId(buyerTransactions), -commission,
                                         CommissionNotes(entityData.auctionDate),
                                         entityData.auctionDate, TRUE, entityData.id)
    IN  IF ~(commission > 0) THEN [scan EXCEPT !.status = "returned"]
        ELSE IF buyerIndex # 0
        THEN [db |-> UpdateDoc(scan.db, snap[buyerIndex].id,
                               [transactions |-> Append(snap[buyerIndex].transactions,
                                                        newTransaction),
                                isBuyer |-> TRUE]),
              w |-> scan.w + 1, status |-> "returned"]
        ELSE [db |-> InsertAt(scan.db, pos,
                              NewClient(docId, buyerName, <<newTransaction>>, TRUE)),
              w |-> scan.w + 1, status |-> "returned"]

\* step 3 creating a client also when one carries the buyer's name
AddCommissionAlwaysCreating(scan, snap, entityData, failAt, docId, pos) ==
    LET commission == Commission(entityData.lots)
        buyerName == entityData.buyerName
        newTransaction == NewTransaction(NextId(<<>>), -commission,
                                         CommissionNotes(entityData.auctionDate),
                                         entityData.auctionDate, TRUE, entityData.id)
    IN  IF ~(commission > 0 /\ buyerName # "") THEN [scan EXCEPT !.status = "returned"]
        ELSE IF scan.w + 1 = failAt
             THEN [scan EXCEPT !.status = "failed"]
             ELSE [db |-> InsertAt(scan.db, pos,
                                   NewClient(docId, buyerName, <<newTransaction>>, TRUE)),
                   w |-> scan.w + 1, status |-> "returned"]

\* step 3 looking for the buyer among the clients that are not archived
AddCommissionSkippingArchived(scan, snap, entityData, failAt, docId, pos) ==
    LET commission == Commission(entityData.lots)
        buyerName == entityData.buyerName
        buyerIndex == FindIndex({k \in 1..Len(snap) :
                                    snap[k].name = buyerName /\ ~snap[k].isArchived})
        buyerTransactions == IF buyerIndex # 0 THEN snap[buyerIndex].transactions ELSE <<>>
        newTransaction == NewTransaction(NextId(buyerTransactions), -commission,
                                         CommissionNotes(entityData.auctionDate),
                                         entityData.auctionDate, TRUE, entityData.id)
    IN  IF ~(commission > 0 /\ buyerName # "") THEN [scan EXCEPT !.status = "returned"]
        ELSE IF buyerIndex # 0
        THEN IF ~WriteOk(scan.db, snap[buyerIndex].id, scan.w, failAt)
             THEN [scan EXCEPT !.status = "failed"]
             ELSE [db |-> UpdateDoc(scan.db, snap[buyerIndex].id,
                                    [transactions |-> Append(snap[buyerIndex].transactions,
                                                             newTransaction),
                                     isBuyer |-> TRUE]),
                   w |-> scan.w + 1, status |-> "returned"]
        ELSE IF scan.w + 1 = failAt
             THEN [scan EXCEPT !.status = "failed"]
             ELSE [db |-> InsertAt(scan.db, pos,
                                   NewClient(docId, buyerName, <<newTransaction>>, TRUE)),
                   w |-> scan.w + 1, status |-> "returned"]

\* step 3 of syncBuyerCommission, after a scan that found no transaction on the
\* buyer: the commission is appended to the buyer's list, or a client is created
\* for it with the document id docId at place pos of the collection
AddCommission(scan, snap, entityData, failAt, docId, pos) ==
    LET commission == Commission(entityData.lots)
        buyerName == entityData.buyerName
        buyerIndex == FindIndex({k \in 1..Len(snap) : snap[k].name = buyerName})
        buyerTransactions == IF buyerIndex # 0 THEN snap[buyerIndex].transactions ELSE <<>>
        newTransaction == NewTransaction(NextId(buyerTransactions), -commission,
                                         CommissionNotes(entityData.auctionDate),
                                         entityData.auctionDate, TRUE, entityData.id)
    IN  IF ~(commission > 0 /\ buyerName # "") THEN [scan EXCEPT !.status = "returned"]
        ELSE IF buyerIndex # 0
        THEN IF ~WriteOk(scan.db, snap[buyerIndex].id, scan.w, failAt)
             THEN [scan EXCEPT !.status = "failed"]
             ELSE [db |-> UpdateDoc(scan.db, snap[buyerIndex].id,
                                    [transactions |-> Append(snap[buyerIndex].transactions,
                                                             newTransaction),
                                     isBuyer |-> TRUE]),
                   w |-> scan.w + 1, status |-> "returned"]
        ELSE IF scan.w + 1 = failAt
             THEN [scan EXCEPT !.status = "failed"]
             ELSE [db |-> InsertAt(scan.db, pos,
                                   NewClient(docId, buyerName, <<newTransaction>>, TRUE)),
                   w |-> scan.w + 1, status |-> "returned"]

\* the scan and step 3 reading the stored collection instead of the clients state
syncBuyerCommissionOnStore(snap, db, w, entityData, failAt, docId, pos) ==
    LET scan == ScanClients(db, 1, db, w, entityData, failAt)
    IN  IF scan.status # "scanned" THEN scan
        ELSE AddCommission(scan, db, entityData, failAt, docId, pos)

\* Case A falling through to step 3 instead of returning
syncBuyerCommissionNoReturn(snap, db, w, entityData, failAt, docId, pos) ==
    LET scan == ScanClients(snap, 1, db, w, entityData, failAt)
    IN  IF scan.status = "failed" THEN scan
        ELSE AddCommission([scan EXCEPT !.status = "scanned"], snap, entityData,
                           failAt, docId, pos)

\* syncBuyerCommission(entityData), run with the clients state snap against the
\* advanceClients collection db after w earlier writes of the handler
syncBuyerCommission(snap, db, w, entityData, failAt, docId, pos) ==
    LET scan == ScanClients(snap, 1, db, w, entityData, failAt)
    IN  IF scan.status # "scanned" THEN scan
        ELSE AddCommission(scan, snap, entityData, failAt, docId, pos)

\* ---------------------------------------------------------------- state
VARIABLES
    dbAdvanceClients,   \* collection advanceClients, in document order
    dbWorkClients,      \* collection workClients, in document order
    dbEntities,         \* collection entities
    clients,            \* React state fed by the advanceClients listener
    workClients,        \* React state fed by the workClients listener
    entities,           \* React state fed by the entities listener
    clientIds,          \* number of client document ids addDoc has handed out
    entityIds,          \* number of entity document ids addDoc has handed out
    lastOp              \* the handler that ran last, and how it ended

vars == <<dbAdvanceClients, dbWorkClients, dbEntities, clients, workClients, entities,
          clientIds, entityIds, lastOp>>

\* writes: the writes of the handler that went through; stale: the handler
\* replaced a list that was no longer the one it had read; fresh: the listeners
\* had delivered every earlier write when the handler started
OpRecord(op, entityId, clientId, status, writes, stale) ==
    [op |-> op, entityId |-> entityId, clientId |-> clientId, status |-> status,
     writes |-> writes, stale |-> stale, fresh |-> TRUE]

Op(op, entityId, clientId, status) ==
    OpRecord(op, entityId, clientId, status, IF status = "done" THEN 1 ELSE 0, FALSE)

\* The store a session starts from: nothing, or what earlier sessions left (an
\* advance and a work client with one purchase each, an entity without lots).
StoredClient(id, name) ==
    NewClient(id, name,
              <<NewTransaction(1, Money(500), PlainNotes("purchase"), Today, FALSE, NoId)>>,
              FALSE)

StoredEntity(id, buyerName) ==
    [id |-> id, buyerName |-> buyerName, auctionDate |-> 1, lots |-> <<>>]

InitStores ==
    {[advance |-> <<>>, work |-> <<>>, entities |-> <<>>],
     [advance |-> <<StoredClient(1, "A")>>, work |-> <<StoredClient(2, "A")>>,
      entities |-> <<StoredEntity(1, "A")>>]}

Init ==
    /\ \E store \in InitStores :
        /\ dbAdvanceClients = store.advance
        /\ dbWorkClients = store.work
        /\ dbEntities = store.entities
        /\ clientIds = Len(store.advance) + Len(store.work)
        /\ entityIds = Len(store.entities)
    /\ clients = <<>>
    /\ workClients = <<>>
    /\ entities = <<>>
    /\ lastOp = Op("init", NoId, NoId, "done")

\* every listener has delivered the current collection
Fresh ==
    /\ clients = dbAdvanceClients
    /\ workClients = dbWorkClients
    /\ entities = dbEntities

\* addDoc hands out the document id after the last one; the counter moves when
\* the handler has stored a document under it
Tick(a, w, e) ==
    /\ clientIds' = IF HasId(a, clientIds + 1) \/ HasId(w, clientIds + 1)
                    THEN clientIds + 1 ELSE clientIds
    /\ entityIds' = IF HasId(e, entityIds + 1) THEN entityIds + 1 ELSE entityIds
    /\ entityIds' <= MaxEntityIds
    /\ Len(a) <= MaxClients \/ Len(a) <= Len(dbAdvanceClients)
    /\ Len(w) <= MaxWorkClients
    /\ Len(e) <= MaxEntities
    /\ \A i \in 1..Len(a) : Len(a[i].transactions) <= MaxTx
    /\ \A i \in 1..Len(w) : Len(w[i].transactions) <= MaxTx
    /\ \A i \in 1..Len(e) : Len(e[i].lots) <= MaxLots

\* the three collections after a handler, its record, and the unchanged React state
Commit(a, w, e, op) ==
    /\ Tick(a, w, e)
    /\ dbAdvanceClients' = a
    /\ dbWorkClients' = w
    /\ dbEntities' = e
    /\ lastOp' = [op EXCEPT !.fresh = Fresh]
    /\ UNCHANGED <<clients, workClients, entities>>

\* ---------------------------------------------------------------- listeners
OnSnapshot ==
    \E name \in {"advanceClients", "workClients", "entities"} :
        /\ clients' = IF name = "advanceClients" THEN dbAdvanceClients ELSE clients
        /\ workClients' = IF name = "workClients" THEN dbWorkClients ELSE workClients
        /\ entities' = IF name = "entities" THEN dbEntities ELSE entities
        /\ <<clients', workClients', entities'>> # <<clients, workClients, entities>>
        /\ lastOp' = Op("onSnapshot", NoId, NoId, "done")
        /\ UNCHANGED <<dbAdvanceClients, dbWorkClients, dbEntities, clientIds, entityIds>>

\* ---------------------------------------------------------------- client handlers
ClientTypes == {"advance", "work"}

AdvanceOnly == {"advance"}

\* clientList: the React state a handler reads for its type
ClientList(type) == IF type = "advance" THEN clients ELSE workClients

\* collectionName: the collection a handler writes for its type
Collection(type) == IF type = "advance" THEN dbAdvanceClients ELSE dbWorkClients

CommitCollection(type, coll, op) ==
    Commit(IF type = "advance" THEN coll ELSE dbAdvanceClients,
           IF type = "work" THEN coll ELSE dbWorkClients,
           dbEntities, op)

addClient(T) ==
    \E name \in ClientNames, type \in T, pos \in 1..(MaxClients + 1) :
        LET docId == clientIds + 1
        IN  /\ pos <= Len(Collection(type)) + 1
            /\ CommitCollection(type,
                   InsertAt(Collection(type), pos, NewClient(docId, name, <<>>, FALSE)),
                   Op("addClient", NoId, docId, "done"))

\* the list written by updateDoc(clientRef, fields), or the failure of the write
UpdateClient(type, client, fields, opName) ==
    IF HasId(Collection(type), client.id)
    THEN CommitCollection(type, UpdateDoc(Collection(type), client.id, fields),
                          OpRecord(opName, NoId, client.id, "done", 1,
                                   FindById(Collection(type), client.id).transactions
                                       # client.transactions))
    ELSE CommitCollection(type, Collection(type), Op(opName, NoId, client.id, "failed"))

\* the edited record keeping the entityId of the record it replaces
addOrUpdateTransactionKeepingLink(T) ==
    \E type \in T, i \in 1..MaxClients, k \in 0..MaxTx,
       amount \in PurchaseAmounts, isSettled \in {FALSE} :
        /\ i <= Len(ClientList(type))
        /\ k <= Len(ClientList(type)[i].transactions)
        /\ LET client == ClientList(type)[i]
               editing == k # 0
               editingTransaction == client.transactions[k]
               newTransaction ==
                   NewTransaction(IF editing THEN editingTransaction.id
                                  ELSE NextId(client.transactions),
                                  Money(amount), PlainNotes("purchase"), Today, isSettled,
                                  IF editing THEN editingTransaction.entityId ELSE NoId)
               updatedTransactions ==
                   IF editing
                   THEN [n \in 1..Len(client.transactions) |->
                            IF client.transactions[n].id = editingTransaction.id
                            THEN newTransaction ELSE client.transactions[n]]
                   ELSE Append(client.transactions, newTransaction)
           IN  UpdateClient(type, client,
                            [transactions |-> updatedTransactions],
                            "addOrUpdateTransaction")

addOrUpdateTransaction(T) ==
    \E type \in T, i \in 1..MaxClients, k \in 0..MaxTx,
       amount \in PurchaseAmounts, isSettled \in {FALSE} :
        /\ i <= Len(ClientList(type))
        /\ k <= Len(ClientList(type)[i].transactions)
        /\ LET client == ClientList(type)[i]
               editing == k # 0
               editingTransaction == client.transactions[k]
               newTransaction ==
                   NewTransaction(IF editing THEN editingTransaction.id
                                  ELSE NextId(client.transactions),
                                  Money(amount), PlainNotes("purchase"), Today, isSettled, NoId)
               updatedTransactions ==
                   IF editing
                   THEN [n \in 1..Len(client.transactions) |->
                            IF client.transactions[n].id = editingTransaction.id
                            THEN newTransaction ELSE client.transactions[n]]
                   ELSE Append(client.transactions, newTransaction)
           IN  UpdateClient(type, client,
                            [transactions |-> updatedTransactions],
                            "addOrUpdateTransaction")

\* the amount negated without Math.abs
PaymentTransactionsNegated(transactions, amount, linkedTransactionId) ==
    LET newTransaction == NewTransaction(NextId(transactions), -Money(amount),
                                         PlainNotes("payment"), Today, TRUE, NoId)
        appended == Append(transactions, newTransaction)
    IN  IF linkedTransactionId # NoId
        THEN [n \in 1..Len(appended) |->
                 IF appended[n].id = linkedTransactionId
                 THEN [appended[n] EXCEPT !.isSettled = TRUE] ELSE appended[n]]
        ELSE appended

\* the linked transaction replaced by the payment instead of marked
PaymentTransactionsReplacing(transactions, amount, linkedTransactionId) ==
    LET newTransaction == NewTransaction(NextId(transactions), -Abs(Money(amount)),
                                         PlainNotes("payment"), Today, TRUE, NoId)
        appended == Append(transactions, newTransaction)
    IN  IF linkedTransactionId # NoId
        THEN [n \in 1..Len(appended) |->
                 IF appended[n].id = linkedTransactionId
                 THEN [appended[n] EXCEPT !.isSettled = TRUE,
                                          !.amount = newTransaction.amount]
                 ELSE appended[n]]
        ELSE appended

\* the list addPayment writes: the payment appended, then the linked one marked
PaymentTransactions(transactions, amount, linkedTransactionId) ==
    LET newTransaction == NewTransaction(NextId(transactions), -Abs(Money(amount)),
                                         PlainNotes("payment"), Today, TRUE, NoId)
        appended == Append(transactions, newTransaction)
    IN  IF linkedTransactionId # NoId
        THEN [n \in 1..Len(appended) |->
                 IF appended[n].id = linkedTransactionId
                 THEN [appended[n] EXCEPT !.isSettled = TRUE] ELSE appended[n]]
        ELSE appended

\* the payment appended to the list the store holds at the time of the write
addPaymentOnStored(T) ==
    \E type \in T, i \in 1..MaxClients, amount \in PaymentAmounts,
       linkedTransactionId \in 0..(MaxTx + 1) :
        /\ i <= Len(ClientList(type))
        /\ ~ClientList(type)[i].isArchived
        /\ HasId(Collection(type), ClientList(type)[i].id)
        /\ LET client == FindById(Collection(type), ClientList(type)[i].id)
               updatedTransactions ==
                   PaymentTransactions(client.transactions, amount, linkedTransactionId)
           IN  UpdateClient(type, client,
                            [transactions |-> updatedTransactions],
                            "addPayment")

addPayment(T) ==
    \E type \in T, i \in 1..MaxClients, amount \in PaymentAmounts,
       linkedTransactionId \in 0..(MaxTx + 1) :
        /\ i <= Len(ClientList(type))
        /\ ~ClientList(type)[i].isArchived
        /\ LET client == ClientList(type)[i]
               updatedTransactions ==
                   PaymentTransactions(client.transactions, amount, linkedTransactionId)
           IN  UpdateClient(type, client,
                            [transactions |-> updatedTransactions],
                            "addPayment")

\* the balance appended with its own sign
BalancingTransactionSameSign(transactions, total) ==
    NewTransaction(NextId(transactions), total, PlainNotes("settlement"), Today, TRUE, NoId)

\* the balancing transaction of confirmSettleAndArchive
BalancingTransaction(transactions, total) ==
    NewTransaction(NextId(transactions), -total, PlainNotes("settlement"), Today, TRUE, NoId)

\* the client of a deleted card: an id addDoc has handed out that neither list holds
SettleTargetGone(id) ==
    /\ id <= clientIds
    /\ ~HasId(clients, id)
    /\ ~HasId(workClients, id)

\* every settled client filed under 'advances'
confirmSettleAndArchiveAsAdvances(T) ==
    \/ \E type \in T, i \in 1..MaxClients :
        /\ i <= Len(ClientList(type))
        /\ ~ClientList(type)[i].isArchived
        /\ LET client == ClientList(type)[i]
               total == Balance(client.transactions)
               isAdvanceClient == HasId(clients, client.id)
               isWorkClient == HasId(workClients, client.id)
               collectionType == IF isAdvanceClient THEN "advance" ELSE "work"
               archiveType == "advances"
               updatedTransactions ==
                   Append(client.transactions,
                          BalancingTransaction(client.transactions, total))
           IN  /\ Abs(total) > 0
               /\ isAdvanceClient \/ isWorkClient
               /\ UpdateClient(collectionType, client,
                               [transactions |-> updatedTransactions,
                                isArchived |-> TRUE,
                                archiveType |-> archiveType],
                               "confirmSettleAndArchive")
    \/ \E id \in 1..(MaxClients + MaxWorkClients) :
        /\ SettleTargetGone(id)
        /\ Commit(dbAdvanceClients, dbWorkClients, dbEntities,
                  Op("confirmSettleAndArchive", NoId, id, "notFound"))

\* settleTarget is {client, total} of a client card, whose button shows when the
\* card's total is not 0; the card may be of a client that was deleted after the
\* dialog opened, and then the handler returns before any write
confirmSettleAndArchive(T) ==
    \/ \E type \in T, i \in 1..MaxClients :
        /\ i <= Len(ClientList(type))
        /\ ~ClientList(type)[i].isArchived
        /\ LET client == ClientList(type)[i]
               total == Balance(client.transactions)
               isAdvanceClient == HasId(clients, client.id)
               isWorkClient == HasId(workClients, client.id)
               collectionType == IF isAdvanceClient THEN "advance" ELSE "work"
               archiveType == IF isAdvanceClient THEN "advances" ELSE "work"
               updatedTransactions ==
                   Append(client.transactions,
                          BalancingTransaction(client.transactions, total))
           IN  /\ Abs(total) > 0
               /\ isAdvanceClient \/ isWorkClient
               /\ UpdateClient(collectionType, client,
                               [transactions |-> updatedTransactions,
                                isArchived |-> TRUE,
                                archiveType |-> archiveType],
                               "confirmSettleAndArchive")
    \/ \E id \in 1..(MaxClients + MaxWorkClients) :
        /\ SettleTargetGone(id)
        /\ Commit(dbAdvanceClients, dbWorkClients, dbEntities,
                  Op("confirmSettleAndArchive", NoId, id, "notFound"))

handleConfirmDeleteClient(T) ==
    \E type \in T, i \in 1..MaxClients :
        /\ i <= Len(ClientList(type))
        /\ LET clientToDelete == [id |-> ClientList(type)[i].id, type |-> type]
           IN  CommitCollection(clientToDelete.type,
                   SelectSeq(Collection(clientToDelete.type),
                             LAMBDA d : d.id # clientToDelete.id),
                   Op("handleConfirmDeleteClient", NoId, clientToDelete.id, "done"))

\* archiveType set to an empty value instead of deleted
confirmRestoreClientEmptyType(T) ==
    \E type \in T, i \in 1..MaxClients :
        /\ i <= Len(ClientList(type))
        /\ LET clientToRestore == ClientList(type)[i]
               isAdvanceClient == HasId(clients, clientToRestore.id)
               isWorkClient == HasId(workClients, clientToRestore.id)
               collectionType == IF isAdvanceClient THEN "advance" ELSE "work"
           IN  /\ clientToRestore.isArchived
               /\ clientToRestore.archiveType = (IF type = "advance" THEN "advances" ELSE "work")
               /\ isAdvanceClient \/ isWorkClient
               /\ UpdateClient(collectionType, clientToRestore,
                               [isArchived |-> FALSE, archiveType |-> ""],
                               "confirmRestoreClient")

confirmRestoreClient(T) ==
    \E type \in T, i \in 1..MaxClients :
        /\ i <= Len(ClientList(type))
        /\ LET clientToRestore == ClientList(type)[i]
               isAdvanceClient == HasId(clients, clientToRestore.id)
               isWorkClient == HasId(workClients, clientToRestore.id)
               collectionType == IF isAdvanceClient THEN "advance" ELSE "work"
           IN  /\ clientToRestore.isArchived
               /\ clientToRestore.archiveType = (IF type = "advance" THEN "advances" ELSE "work")
               /\ isAdvanceClient \/ isWorkClient
               /\ UpdateClient(collectionType, clientToRestore,
                               [isArchived |-> FALSE, archiveType |-> "absent"],
                               "confirmRestoreClient")

\* ---------------------------------------------------------------- entity handlers
\* the client writes undone when a later write of the reconciliation fails
CommitSyncRolledBack(opName, entityId, e, sync) ==
    Commit(IF sync.status = "failed" THEN dbAdvanceClients ELSE sync.db, dbWorkClients, e,
           OpRecord(opName, entityId, NoId,
                    IF sync.status = "failed" THEN "syncFailed" ELSE "done",
                    sync.w, FALSE))

\* the collections after a handler whose entity write went through and whose
\* reconciliation ended as sync: the client writes made before a failure stay
CommitSync(opName, entityId, e, sync) ==
    Commit(sync.db, dbWorkClients, e,
           OpRecord(opName, entityId, NoId,
                    IF sync.status = "failed" THEN "syncFailed" ELSE "done",
                    sync.w, FALSE))

\* the lots written and the reconciliation left out
WriteLotsOnly(opName, entity, updatedLots, failAt, pos) ==
    /\ pos = 1
    /\ CommitSync(opName, entity.id,
                  UpdateDoc(dbEntities, entity.id, [lots |-> updatedLots]),
                  [db |-> dbAdvanceClients, w |-> 1, status |-> "returned"])

\* the reconciliation run on the work clients as well
WriteLotsThenSyncBoth(opName, entity, updatedLots, failAt, pos) ==
    LET updatedEntity == [entity EXCEPT !.lots = updatedLots]
        sync == syncBuyerCommission(clients, dbAdvanceClients, 1, updatedEntity,
                                    failAt, clientIds + 1, pos)
        syncWork == syncBuyerCommission(workClients, dbWorkClients, sync.w, updatedEntity,
                                        failAt, clientIds + 1, 1)
    IN  Commit(sync.db, syncWork.db,
               UpdateDoc(dbEntities, entity.id, [lots |-> updatedLots]),
               OpRecord(opName, entity.id, NoId, "done", syncWork.w, FALSE))

\* what a handler does once it has computed updatedLots from the entity of the
\* entities state: write the lots, then reconcile with the entity as just written.
\* Write 1 is the entity write, the reconciliation's writes follow.
WriteLotsThenSync(opName, entity, updatedLots, failAt, pos) ==
    LET updatedEntity == [entity EXCEPT !.lots = updatedLots]
        sync == syncBuyerCommission(clients, dbAdvanceClients, 1, updatedEntity,
                                    failAt, clientIds + 1, pos)
    IN  IF ~WriteOk(dbEntities, entity.id, 0, failAt)
        THEN Commit(dbAdvanceClients, dbWorkClients, dbEntities,
                    Op(opName, entity.id, NoId, "failed"))
        ELSE CommitSync(opName, entity.id,
                        UpdateDoc(dbEntities, entity.id,
                               [lots |-> updatedLots]),
                        sync)

\* the place of a created client matters only when the reconciliation creates one
PosUsed(pos, entityData) ==
    \/ pos = 1
    \/ /\ pos <= Len(dbAdvanceClients) + 1
       /\ Commission(entityData.lots) > 0
       /\ entityData.buyerName # ""
       /\ FindIndex({k \in 1..Len(clients) : clients[k].name = entityData.buyerName}) = 0

\* value70 stored without the subtraction of value30
NewLotDataWhole(lotData) ==
    [totalValue |-> lotData.totalValue,
     value30 |-> lotData.value30,
     value70 |-> lotData.totalValue]

NewLotData(lotData) ==
    [totalValue |-> lotData.totalValue,
     value30 |-> lotData.value30,
     value70 |-> lotData.totalValue - lotData.value30]

addOrUpdateEntity(F) ==
    \E failAt \in F, buyerName \in BuyerNames, auctionDate \in AuctionDates,
       i \in 0..MaxEntities, pos \in 1..(MaxClients + 1) :
        /\ i <= Len(entities)
        /\ LET editingEntity == entities[i]
               fullEntityData == [editingEntity EXCEPT !.buyerName = buyerName,
                                                       !.auctionDate = auctionDate]
               sync == syncBuyerCommission(clients, dbAdvanceClients, 1, fullEntityData,
                                           failAt, clientIds + 1, pos)
           IN  IF i = 0
               THEN /\ pos = 1
                    /\ failAt = 0
                    /\ Commit(dbAdvanceClients, dbWorkClients,
                              Append(dbEntities, [id |-> entityIds + 1,
                                                  buyerName |-> buyerName,
                                                  auctionDate |-> auctionDate,
                                                  lots |-> <<>>]),
                              Op("addEntity", entityIds + 1, NoId, "done"))
               ELSE /\ PosUsed(pos, fullEntityData)
                    /\ IF ~WriteOk(dbEntities, editingEntity.id, 0, failAt)
                       THEN Commit(dbAdvanceClients, dbWorkClients, dbEntities,
                                   Op("editEntity", editingEntity.id, NoId, "failed"))
                       ELSE CommitSync("editEntity", editingEntity.id,
                                       UpdateDoc(dbEntities, editingEntity.id,
                                                 [buyerName |-> buyerName,
                                                  auctionDate |-> auctionDate]),
                                       sync)

addOrUpdateLot(F) ==
    \E failAt \in F, i \in 1..MaxEntities, k \in 0..MaxLots, lotData \in LotInputs,
       pos \in 1..(MaxClients + 1) :
        /\ i <= Len(entities)
        /\ k <= Len(entities[i].lots)
        /\ LET entity == entities[i]
               editingLot == entity.lots[k]
               newLotData == NewLotData(lotData)
               updatedLots ==
                   IF k # 0
                   THEN [n \in 1..Len(entity.lots) |->
                            IF entity.lots[n].id = editingLot.id
                            THEN [entity.lots[n] EXCEPT !.totalValue = newLotData.totalValue,
                                                        !.value30 = newLotData.value30,
                                                        !.value70 = newLotData.value70]
                            ELSE entity.lots[n]]
                   ELSE Append(entity.lots,
                               [id |-> NextId(entity.lots),
                                totalValue |-> newLotData.totalValue,
                                value30 |-> newLotData.value30,
                                value70 |-> newLotData.value70,
                                is70Paid |-> FALSE,
                                paymentDetails |-> "absent",
                                isArchived |-> FALSE,
                                loaded |-> FALSE])
           IN  /\ PosUsed(pos, [entity EXCEPT !.lots = updatedLots])
               /\ WriteLotsThenSync("addOrUpdateLot", entity, updatedLots, failAt, pos)

\* supplyTarget of type 'lot' names a lot, of type 'entity' (lotId NoId) the whole
\* entity; the lots are written and nothing else
handleSupplySave ==
    \E i \in 1..MaxEntities, k \in 0..MaxLots, payerName \in PayerNames :
        /\ i <= Len(entities)
        /\ k <= Len(entities[i].lots)
        /\ LET entity == entities[i]
               lotId == IF k = 0 THEN NoId ELSE entity.lots[k].id
               updatedLots ==
                   IF lotId # NoId
                   THEN [n \in 1..Len(entity.lots) |->
                            IF entity.lots[n].id = lotId
                            THEN [entity.lots[n] EXCEPT !.is70Paid = TRUE,
                                                        !.paymentDetails = payerName]
                            ELSE entity.lots[n]]
                   ELSE [n \in 1..Len(entity.lots) |->
                            IF ~entity.lots[n].is70Paid
                            THEN [entity.lots[n] EXCEPT !.is70Paid = TRUE,
                                                        !.paymentDetails = payerName]
                            ELSE entity.lots[n]]
           IN  IF HasId(dbEntities, entity.id)
               THEN Commit(dbAdvanceClients, dbWorkClients,
                           UpdateDoc(dbEntities, entity.id, [lots |-> updatedLots]),
                           Op("handleSupplySave", entity.id, NoId, "done"))
               ELSE Commit(dbAdvanceClients, dbWorkClients, dbEntities,
                           Op("handleSupplySave", entity.id, NoId, "failed"))

\* the reconciliation run after the lots are marked loaded
handleLoadingSaveThenSync ==
    \E i \in 1..MaxEntities, k \in 0..MaxLots :
        /\ i <= Len(entities)
        /\ k <= Len(entities[i].lots)
        /\ LET entity == entities[i]
               lotId == IF k = 0 THEN NoId ELSE entity.lots[k].id
               updatedLots ==
                   [n \in 1..Len(entity.lots) |->
                       IF lotId = NoId \/ entity.lots[n].id = lotId
                       THEN [entity.lots[n] EXCEPT !.isArchived = TRUE, !.loaded = TRUE]
                       ELSE entity.lots[n]]
           IN  WriteLotsThenSync("handleLoadingSave", entity, updatedLots, 0, 1)

\* loadingTarget.lotId of NoId is the whole entity; no reconciliation follows
handleLoadingSave ==
    \E i \in 1..MaxEntities, k \in 0..MaxLots :
        /\ i <= Len(entities)
        /\ k <= Len(entities[i].lots)
        /\ LET entity == entities[i]
               lotId == IF k = 0 THEN NoId ELSE entity.lots[k].id
               updatedLots ==
                   [n \in 1..Len(entity.lots) |->
                       IF lotId = NoId \/ entity.lots[n].id = lotId
                       THEN [entity.lots[n] EXCEPT !.isArchived = TRUE, !.loaded = TRUE]
                       ELSE entity.lots[n]]
           IN  IF HasId(dbEntities, entity.id)
               THEN Commit(dbAdvanceClients, dbWorkClients,
                           UpdateDoc(dbEntities, entity.id,
                                  [lots |-> updatedLots]),
                           Op("handleLoadingSave", entity.id, NoId, "done"))
               ELSE Commit(dbAdvanceClients, dbWorkClients, dbEntities,
                           Op("handleLoadingSave", entity.id, NoId, "failed"))

handleConfirmDeleteLot(F) ==
    \E failAt \in F, i \in 1..MaxEntities, k \in 1..MaxLots, pos \in 1..(MaxClients + 1) :
        /\ i <= Len(entities)
        /\ k <= Len(entities[i].lots)
        /\ LET entity == entities[i]
               lotId == entity.lots[k].id
               updatedLots == SelectSeq(entity.lots, LAMBDA l : l.id # lotId)
           IN  /\ PosUsed(pos, [entity EXCEPT !.lots = updatedLots])
               /\ WriteLotsThenSync("handleConfirmDeleteLot", entity, updatedLots, failAt, pos)

toggleLotArchive(F) ==
    \E failAt \in F, i \in 1..MaxEntities, k \in 1..MaxLots, pos \in 1..(MaxClients + 1) :
        /\ i <= Len(entities)
        /\ k <= Len(entities[i].lots)
        /\ LET entity == entities[i]
               lot == entity.lots[k]
               updatedLots ==
                   [n \in 1..Len(entity.lots) |->
                       IF entity.lots[n].id = lot.id
                       THEN [entity.lots[n] EXCEPT !.isArchived = ~@]
                       ELSE entity.lots[n]]
           IN  /\ PosUsed(pos, [entity EXCEPT !.lots = updatedLots])
               /\ WriteLotsThenSync("toggleLotArchive", entity, updatedLots, failAt, pos)

\* the commission of the deleted entity removed with it
handleConfirmDeleteCascading ==
    \E i \in 1..MaxEntities :
        /\ i <= Len(entities)
        /\ LET entityToDeleteId == entities[i].id
           IN  Commit([k \in 1..Len(dbAdvanceClients) |->
                          [dbAdvanceClients[k] EXCEPT !.transactions =
                              SelectSeq(@, LAMBDA t : t.entityId # entityToDeleteId)]],
                      dbWorkClients,
                      SelectSeq(dbEntities, LAMBDA d : d.id # entityToDeleteId),
                      Op("handleConfirmDelete", entityToDeleteId, NoId, "done"))

handleConfirmDelete ==
    \E i \in 1..MaxEntities :
        /\ i <= Len(entities)
        /\ LET entityToDeleteId == entities[i].id
           IN  Commit(dbAdvanceClients, dbWorkClients,
                      SelectSeq(dbEntities, LAMBDA d : d.id # entityToDeleteId),
                      Op("handleConfirmDelete", entityToDeleteId, NoId, "done"))

\* ---------------------------------------------------------------- specifications
MaxWrites == 3

NoFailure == {0}

AnyFailure == 0..MaxWrites

\* The entity flows and the ledger of the advance clients.  Every handler starts
\* from state the listeners have brought up to date, and every write succeeds.
Next ==
    \/ OnSnapshot
    \/ Fresh /\ addClient(AdvanceOnly)
    \/ Fresh /\ addOrUpdateEntity(NoFailure)
    \/ Fresh /\ addOrUpdateLot(NoFailure)
    \/ Fresh /\ handleLoadingSave
    \/ Fresh /\ handleConfirmDeleteLot(NoFailure)
    \/ Fresh /\ toggleLotArchive(NoFailure)
    \/ Fresh /\ handleConfirmDelete

Spec == Init /\ [][Next]_vars

\* as Spec, and any one write of a handler may be rejected
NextFail ==
    \/ OnSnapshot
    \/ Fresh /\ addOrUpdateEntity(AnyFailure)
    \/ Fresh /\ addOrUpdateLot(AnyFailure)
    \/ Fresh /\ toggleLotArchive(AnyFailure)

SpecFail == Init /\ [][NextFail]_vars

\* The ledgers of both client collections, handlers starting from fresh state.
NextLedger ==
    \/ OnSnapshot
    \/ Fresh /\ addOrUpdateTransaction(ClientTypes)
    \/ Fresh /\ addPayment(ClientTypes)
    \/ Fresh /\ confirmSettleAndArchive(ClientTypes)
    \/ Fresh /\ confirmRestoreClient(ClientTypes)

SpecLedger == Init /\ [][NextLedger]_vars

\* A handler may start before the listeners have delivered the writes of the
\* handler before it, and computes its lists from the state it was given.
RaceWindow == Fresh \/ (lastOp.op # "onSnapshot" /\ lastOp.fresh)

NextRace ==
    \/ OnSnapshot
    \/ RaceWindow /\ addOrUpdateLot(NoFailure)
    \/ RaceWindow /\ addPayment(AdvanceOnly)

SpecRace == Init /\ [][NextRace]_vars

\* The handlers that write the lots of an entity, starting from fresh state.
NextLots ==
    \/ OnSnapshot
    \/ Fresh /\ addOrUpdateLot(NoFailure)
    \/ Fresh /\ handleSupplySave
    \/ Fresh /\ handleLoadingSave
    \/ Fresh /\ handleConfirmDeleteLot(NoFailure)
    \/ Fresh /\ toggleLotArchive(NoFailure)

SpecLots == Init /\ [][NextLots]_vars

\* Settling and deleting clients of both collections, from fresh state.
NextSettle ==
    \/ OnSnapshot
    \/ Fresh /\ addOrUpdateTransaction(ClientTypes)
    \/ Fresh /\ confirmSettleAndArchive(ClientTypes)
    \/ Fresh /\ handleConfirmDeleteClient(ClientTypes)

SpecSettle == Init /\ [][NextSettle]_vars

\* ---------------------------------------------------------------- reconciliation
MaxSyncClients == 3

\* the ledgers an advance client can hold when a reconciliation starts: purchases,
\* a commission of the entity written by an earlier reconciliation (of 25, when
\* the auction date was 2), or the ledger of a settled and archived client
SyncLedgers ==
    LET purchase == NewTransaction(1, Money(500), PlainNotes("purchase"), Today, FALSE, NoId)
        settlement == NewTransaction(2, -Money(500), PlainNotes("settlement"), Today,
                                     TRUE, NoId)
    IN  {[transactions |-> <<>>, isArchived |-> FALSE],
         [transactions |-> <<purchase>>, isArchived |-> FALSE],
         [transactions |-> <<NewTransaction(1, -25000, CommissionNotes(2), 2, TRUE, 1)>>,
          isArchived |-> FALSE],
         [transactions |-> <<purchase, NewTransaction(2, -25000, CommissionNotes(2), 2,
                                                      TRUE, 1)>>,
          isArchived |-> FALSE],
         [transactions |-> <<NewTransaction(2, -25000, CommissionNotes(2), 2, TRUE, 1),
                             purchase>>,
          isArchived |-> FALSE],
         [transactions |-> <<purchase, settlement>>, isArchived |-> TRUE],
         [transactions |-> <<NewTransaction(1, -25000, CommissionNotes(2), 2, TRUE, 1),
                             NewTransaction(2, 25000, PlainNotes("settlement"), Today,
                                            TRUE, NoId)>>,
          isArchived |-> TRUE]}

SyncClients == [name : ClientNames, ledger : SyncLedgers]

StoredSyncClient(shape, id) ==
    [id |-> id, name |-> shape.name, transactions |-> shape.ledger.transactions,
     isBuyer |-> \E k \in 1..Len(shape.ledger.transactions) :
                     shape.ledger.transactions[k].entityId # NoId,
     isArchived |-> shape.ledger.isArchived,
     archiveType |-> IF shape.ledger.isArchived THEN "advances" ELSE "absent"]

SyncLots ==
    {<<>>,
     <<[id |-> 1, totalValue |-> 10000, value30 |-> 3000, value70 |-> 7000,
        is70Paid |-> FALSE, paymentDetails |-> "absent", isArchived |-> FALSE,
        loaded |-> FALSE]>>}

\* the stores a reconciliation of entity 1 can start from: the advance clients may
\* share names, and several of them may hold a commission of the entity
InitSync ==
    /\ \E m \in 0..MaxSyncClients : \E shapes \in [1..m -> SyncClients] :
        /\ dbAdvanceClients = [j \in 1..m |-> StoredSyncClient(shapes[j], j)]
        /\ clientIds = m
    /\ \E lots \in SyncLots :
        dbEntities = <<[id |-> 1, buyerName |-> "A", auctionDate |-> 1, lots |-> lots]>>
    /\ entityIds = 1
    /\ dbWorkClients = <<>>
    /\ clients = <<>>
    /\ workClients = <<>>
    /\ entities = <<>>
    /\ lastOp = Op("init", NoId, NoId, "done")

\* the entity saved again, with any buyer: each save runs the reconciliation
NextSync ==
    \/ OnSnapshot
    \/ Fresh /\ addOrUpdateEntity(NoFailure)

SpecSync == InitSync /\ [][NextSync]_vars

\* as SpecSync, and a save may start before the listeners have delivered the
\* writes of the save before it
NextSyncRace ==
    \/ OnSnapshot
    \/ RaceWindow /\ addOrUpdateEntity(NoFailure)

SpecSyncRace == InitSync /\ [][NextSyncRace]_vars

\* Transactions of the advance clients are added and edited between the
\* reconciliations of entity 1.
NextEdit ==
    \/ OnSnapshot
    \/ Fresh /\ addOrUpdateTransaction(AdvanceOnly)
    \/ Fresh /\ addOrUpdateEntity(NoFailure)

\* a store of at most MaxClients advance clients
InitEdit ==
    /\ InitSync
    /\ Len(dbAdvanceClients) <= MaxClients

SpecEdit == InitEdit /\ [][NextEdit]_vars

\* ---------------------------------------------------------------- dashboard
MaxShownEntities == 2

DeadlineDays == 15

\* the clock counts hours: 24 * 60 * 60 * 1000 ms are HoursPerDay of them
HoursPerDay == 24

\* auction dates (day 1 and day 5) and the moments of computing and rendering,
\* in hours: days 10, 16, 18 and 25, and the last hour before each deadline
ShownDates == {24, 120}

Nows == {240, 383, 384, 432, 479, 600}

\* setDate(getDate() + 15) moves the local date: the deadline it gives is an hour
\* ahead of or behind 15 * 24 hours when the local clock changes in between
LocalShifts == {-1, 0, 1}

\* days <= 5 in getStatusTag
PendingDays == 5

\* entities.flatMap(e => e.lots.filter(l => !l.isArchived)), from entity i on
RECURSIVE FlatActiveLots(_, _)
FlatActiveLots(shown, i) ==
    IF i > Len(shown) THEN <<>>
    ELSE ActiveLots(shown[i].lots) \o FlatActiveLots(shown, i + 1)

\* entities.find(e => e.lots.some(l => l.id === lot.id))?.auctionDate
AuctionDateOf(shown, lot) ==
    shown[FindIndex({i \in 1..Len(shown) :
                        \E n \in 1..Len(shown[i].lots) : shown[i].lots[n].id = lot.id})].auctionDate

\* the deadline that is reached counted as still ahead
IsAheadOrDue(auctionDate, now) == auctionDate + DeadlineDays * HoursPerDay >= now

\* new Date(auctionDate.toMillis() + 15 days) > new Date()
IsAhead(auctionDate, now) == auctionDate + DeadlineDays * HoursPerDay > now

\* Array.prototype.sort with (a, b) => dateA - dateB: stable, ascending
RECURSIVE SortByAuctionDate(_)
SortByAuctionDate(dated) ==
    IF dated = <<>> THEN <<>>
    ELSE LET rest == SortByAuctionDate(Tail(dated))
             before == SelectSeq(rest, LAMBDA d : d.auctionDate < Head(dated).auctionDate)
             after == SelectSeq(rest, LAMBDA d : d.auctionDate >= Head(dated).auctionDate)
         IN  before \o <<Head(dated)>> \o after

\* metrics.upcomingLot: element [0] of the sorted list, as a list of at most one
\* element (the empty list is undefined)
UpcomingLot(shown, now) ==
    LET allLots == FlatActiveLots(shown, 1)
        unpaid == SelectSeq(allLots, LAMBDA lot : ~lot.is70Paid)
        dated == [i \in 1..Len(unpaid) |->
                     [lot |-> unpaid[i], auctionDate |-> AuctionDateOf(shown, unpaid[i])]]
        ahead == SelectSeq(dated, LAMBDA d : IsAhead(d.auctionDate, now))
        sorted == SortByAuctionDate(ahead)
    IN  SubSeq(sorted, 1, IF sorted = <<>> THEN 0 ELSE 1)

\* the paid lots counted in what remains to supply
EntityAggregatesOfAll(lots) ==
    LET activeLots == ActiveLots(lots)
    IN  [entityTotal |-> Sum([i \in 1..Len(activeLots) |-> activeLots[i].totalValue]),
         entity30 |-> Sum([i \in 1..Len(activeLots) |-> activeLots[i].value30]),
         entity70 |-> Sum([i \in 1..Len(activeLots) |-> activeLots[i].value70]),
         entityRemaining |-> Sum([i \in 1..Len(activeLots) |-> activeLots[i].value70])]

\* the totals of one entity in the summary
EntityAggregates(lots) ==
    LET activeLots == ActiveLots(lots)
        unpaid == SelectSeq(activeLots, LAMBDA l : ~l.is70Paid)
    IN  [entityTotal |-> Sum([i \in 1..Len(activeLots) |-> activeLots[i].totalValue]),
         entity30 |-> Sum([i \in 1..Len(activeLots) |-> activeLots[i].value30]),
         entity70 |-> Sum([i \in 1..Len(activeLots) |-> activeLots[i].value70]),
         entityRemaining |-> Sum([i \in 1..Len(unpaid) |-> unpaid[i].value70])]

\* the totals of the dashboard, over the active lots of every entity
DashboardTotals(shown) ==
    LET allLots == FlatActiveLots(shown, 1)
        unpaid == SelectSeq(allLots, LAMBDA l : ~l.is70Paid)
    IN  [totalInvoices |-> Sum([i \in 1..Len(allLots) |-> allLots[i].totalValue]),
         remainingToSupply |-> Sum([i \in 1..Len(unpaid) |-> unpaid[i].value70]),
         remaining30 |-> Sum([i \in 1..Len(allLots) |-> allLots[i].value30])]

\* Math.ceil(a / b) for b > 0
Ceil(a, b) == -((-a) \div b)

\* the days rounded down instead of up
getDaysDiffRoundingDown(date, now, shift) ==
    LET deadline == date + DeadlineDays * HoursPerDay + shift
        diffTime == deadline - now
    IN  diffTime \div HoursPerDay

\* getDaysDiff(date) at the moment now, the local deadline being shift hours off
\* 15 * 24 hours after the date
getDaysDiff(date, now, shift) ==
    LET deadline == date + DeadlineDays * HoursPerDay + shift
        diffTime == deadline - now
    IN  Ceil(diffTime, HoursPerDay)

\* getStatusTag(days), by the name of the tag
getStatusTag(days) ==
    IF days < 0 THEN "overdue"
    ELSE IF days <= PendingDays THEN "pending"
    ELSE "upcoming"

\* the tag of the next-payment card rendered at the moment now from the metrics
\* memoised at the moment computed; "none" when the card is not rendered
NextPaymentTag(shown, computed, now, shift) ==
    LET metrics == DashboardTotals(shown)
        upcomingLot == UpcomingLot(shown, computed)
        isFullyPaid == metrics.totalInvoices > 0 /\ metrics.remainingToSupply = 0
    IN  IF isFullyPaid \/ upcomingLot = <<>> THEN "none"
        ELSE getStatusTag(getDaysDiff(upcomingLot[1].auctionDate, now, shift))

\* what a lot of an entity can look like after the lot handlers
ShownLots ==
    {[totalValue |-> NewLotData(lotData).totalValue, value30 |-> NewLotData(lotData).value30,
      value70 |-> NewLotData(lotData).value70, is70Paid |-> is70Paid,
      isArchived |-> isArchived] :
        lotData \in LotInputs, is70Paid \in BOOLEAN, isArchived \in BOOLEAN}

ShownEntities ==
    [auctionDate : ShownDates, lots : UNION {[1..n -> ShownLots] : n \in 0..MaxLots}]

\* entity j of a store: its lots carry ids of their own, as ids taken from the
\* clock do
StoredShownEntity(shape, j) ==
    [id |-> j, buyerName |-> "A", auctionDate |-> shape.auctionDate,
     lots |-> [n \in 1..Len(shape.lots) |->
                  [id |-> (j - 1) * (MaxLots + 1) + n,
                   totalValue |-> shape.lots[n].totalValue,
                   value30 |-> shape.lots[n].value30,
                   value70 |-> shape.lots[n].value70,
                   is70Paid |-> shape.lots[n].is70Paid,
                   paymentDetails |-> IF shape.lots[n].is70Paid THEN "P" ELSE "absent",
                   isArchived |-> shape.lots[n].isArchived,
                   loaded |-> FALSE]]]

\* the stores the dashboard is rendered from: the entities in the order of the
\* query, auctionDate descending
InitDashboard ==
    /\ \E m \in 0..MaxShownEntities : \E shapes \in [1..m -> ShownEntities] :
        /\ \A j \in 1..m : \A l \in 1..m :
            j < l => shapes[j].auctionDate >= shapes[l].auctionDate
        /\ dbEntities = [j \in 1..m |-> StoredShownEntity(shapes[j], j)]
        /\ entityIds = m
    /\ dbAdvanceClients = <<>>
    /\ dbWorkClients = <<>>
    /\ clientIds = 0
    /\ clients = <<>>
    /\ workClients = <<>>
    /\ entities = <<>>
    /\ lastOp = Op("init", NoId, NoId, "done")

\* the entities listener delivers the store, and the dashboard renders from it
NextDashboard == OnSnapshot

SpecDashboard == InitDashboard /\ [][NextDashboard]_vars

\* ---------------------------------------------------------------- properties
\* the places <<client, transaction>> of coll where a transaction carries entityId
CommissionPlaces(coll, entityId) ==
    {p \in UNION {{<<i, k>> : k \in 1..Len(coll[i].transactions)} : i \in 1..Len(coll)} :
        coll[p[1]].transactions[p[2]].entityId = entityId}

\* 0.005 * (sum of totalValue over the lots with isArchived false), in thousandths
ExpectedCommission(lots) ==
    LET sum[i \in 0..Len(lots)] ==
            IF i = 0 THEN 0
            ELSE sum[i-1] + (IF lots[i].isArchived THEN 0 ELSE lots[i].totalValue)
    IN  (sum[Len(lots)] * 1000 * 5) \div 1000

LotOps == {"addOrUpdateLot", "handleConfirmDeleteLot", "toggleLotArchive"}

SyncOps == LotOps \cup {"editEntity"}

\* the last step was a handler of ops that completed on an entity still stored
Completed(ops) ==
    /\ lastOp.op \in ops
    /\ lastOp.status = "done"
    /\ HasId(dbEntities, lastOp.entityId)

OpEntity == FindById(dbEntities, lastOp.entityId)

\* C1: for every stored entity E, at most one transaction with entityId = E.id
\* exists across all advance clients, and if it exists it is in the list of a
\* client whose name equals E.buyerName.
C1_AtMostOneOnBuyer ==
    \A i \in 1..Len(dbEntities) :
        LET E == dbEntities[i]
            places == CommissionPlaces(dbAdvanceClients, E.id)
        IN  /\ Cardinality(places) <= 1
            /\ \A p \in places : dbAdvanceClients[p[1]].name = E.buyerName

\* a lot was archived on an entity with two lots, and the entity's single
\* commission stands next to another transaction of its buyer
C1_Witness ==
    /\ Completed({"toggleLotArchive"})
    /\ Len(OpEntity.lots) >= 2
    /\ \E p \in CommissionPlaces(dbAdvanceClients, OpEntity.id) :
        /\ CommissionPlaces(dbAdvanceClients, OpEntity.id) = {p}
        /\ Len(dbAdvanceClients[p[1]].transactions) >= 2
        /\ dbAdvanceClients[p[1]].name = OpEntity.buyerName

ExampleLots ==
    <<[totalValue |-> 1000, isArchived |-> FALSE],
      [totalValue |-> 2000, isArchived |-> FALSE],
      [totalValue |-> 500, isArchived |-> FALSE],
      [totalValue |-> 10000, isArchived |-> TRUE]>>

\* C2: after a reconciliation for E with a non-empty buyerName and a positive
\* active sum, the commission transaction of E exists and its amount is
\* -(0.005 * sum of totalValue over the lots not archived); archived lots add
\* nothing: active lots of 1000, 2000, 500 and an archived lot of 10000 give 17.5.
C2_AmountIsHalfPercentOfActive ==
    /\ Commission(ExampleLots) = 17500
    /\ Completed(SyncOps) =>
        LET E == OpEntity
            places == CommissionPlaces(dbAdvanceClients, E.id)
        IN  (E.buyerName # "" /\ ExpectedCommission(E.lots) > 0) =>
                /\ places # {}
                /\ \A p \in places :
                    dbAdvanceClients[p[1]].transactions[p[2]].amount
                        = -ExpectedCommission(E.lots)

\* a lot was saved on an entity that also has an archived lot of positive value
C2_Witness ==
    /\ Completed({"addOrUpdateLot"})
    /\ OpEntity.buyerName # ""
    /\ ExpectedCommission(OpEntity.lots) > 0
    /\ \E k \in 1..Len(OpEntity.lots) :
        OpEntity.lots[k].isArchived /\ OpEntity.lots[k].totalValue > 0
    /\ CommissionPlaces(dbAdvanceClients, OpEntity.id) # {}

\* the commission invariant for entity E in the current store
CommissionInvariant(E) ==
    LET places == CommissionPlaces(dbAdvanceClients, E.id)
    IN  E.buyerName # "" =>
            /\ \A p \in places :
                dbAdvanceClients[p[1]].transactions[p[2]].amount = -ExpectedCommission(E.lots)
            /\ ExpectedCommission(E.lots) = 0 => places = {}

\* C3 as stated: the commission invariant holds for every entity after every
\* completed add, edit or delete lot, toggle archive, mark loaded or edit entity.
C3_AsStated ==
    (lastOp.op \in SyncOps \cup {"handleLoadingSave"} /\ lastOp.status = "done") =>
        \A i \in 1..Len(dbEntities) : CommissionInvariant(dbEntities[i])

\* C3: after a completed add, edit or delete lot, toggle archive or edit entity on
\* E, the commission invariant holds for E.
C3_InvariantAfterReconciledOps ==
    Completed(SyncOps) => CommissionInvariant(OpEntity)

\* an entity was edited after one of its lots was marked loaded, and its
\* commission is the one of the remaining active lots
C3_Witness ==
    /\ Completed({"editEntity"})
    /\ OpEntity.buyerName # ""
    /\ \E k \in 1..Len(OpEntity.lots) :
        OpEntity.lots[k].loaded /\ OpEntity.lots[k].totalValue > 0
    /\ ExpectedCommission(OpEntity.lots) > 0
    /\ CommissionPlaces(dbAdvanceClients, OpEntity.id) # {}

\* a handler of ops has just completed on an entity stored after the step
CompletedStep(ops) ==
    /\ lastOp'.op \in ops
    /\ lastOp'.status = "done"
    /\ HasId(dbEntities', lastOp'.entityId)

\* the transactions of list that do not carry entityId
Without(list, entityId) ==
    LET rest[i \in 0..Len(list)] ==
            IF i = 0 THEN <<>>
            ELSE IF list[i].entityId = entityId THEN rest[i-1] ELSE Append(rest[i-1], list[i])
    IN  rest[Len(list)]

C4_Step ==
    CompletedStep({"editEntity"}) =>
        LET E == FindById(dbEntities', lastOp'.entityId)
            before == CommissionPlaces(dbAdvanceClients, E.id)
            after == CommissionPlaces(dbAdvanceClients', E.id)
        IN  \A a \in before :
                LET A == dbAdvanceClients[a[1]]
                IN  (A.name # E.buyerName /\ E.buyerName # ""
                        /\ ExpectedCommission(E.lots) > 0) =>
                    /\ \A p \in after : dbAdvanceClients'[p[1]].id # A.id
                    /\ Cardinality(after) = 1
                    /\ \A p \in after :
                        /\ dbAdvanceClients'[p[1]].name = E.buyerName
                        /\ dbAdvanceClients'[p[1]].transactions[p[2]].amount
                               = -ExpectedCommission(E.lots)

\* C4: when the commission of E is on client A and an entity edit gives E the
\* name of another client B, existing or not, with a positive commission, then
\* after the edit A holds no transaction of E and exactly one transaction of E
\* exists, on a client named B, with the recomputed amount.
C4_BuyerChangeMigrates == [][C4_Step]_vars

\* the clients state still shows the commission on the old buyer, who had other
\* transactions; the store holds it on the new buyer only
C4_Witness ==
    /\ Completed({"editEntity"})
    /\ ExpectedCommission(OpEntity.lots) > 0
    /\ \E a \in CommissionPlaces(clients, OpEntity.id) :
        /\ clients[a[1]].name # OpEntity.buyerName
        /\ Len(clients[a[1]].transactions) >= 2
        /\ \A p \in CommissionPlaces(dbAdvanceClients, OpEntity.id) :
            dbAdvanceClients[p[1]].id # clients[a[1]].id
    /\ \E p \in CommissionPlaces(dbAdvanceClients, OpEntity.id) :
        dbAdvanceClients[p[1]].name = OpEntity.buyerName

\* C5: after a reconciliation for E whose active lots sum to 0 (all archived or
\* removed), no advance client holds a transaction with entityId = E.id.
C5_ZeroCommissionRemoved ==
    (Completed(SyncOps) /\ ExpectedCommission(OpEntity.lots) = 0) =>
        CommissionPlaces(dbAdvanceClients, OpEntity.id) = {}

\* the last active lot was archived or deleted while the clients state still
\* shows the commission
C5_Witness ==
    /\ Completed({"toggleLotArchive", "handleConfirmDeleteLot"})
    /\ ExpectedCommission(OpEntity.lots) = 0
    /\ CommissionPlaces(clients, OpEntity.id) # {}
    /\ CommissionPlaces(dbAdvanceClients, OpEntity.id) = {}

C6_Step ==
    CompletedStep(SyncOps) =>
        /\ dbWorkClients' = dbWorkClients
        /\ Len(dbEntities') = Len(dbEntities)
        /\ \A i \in 1..Len(dbEntities) :
            /\ dbEntities'[i].id = dbEntities[i].id
            /\ dbEntities[i].id # lastOp'.entityId => dbEntities'[i] = dbEntities[i]
            /\ lastOp'.op = "editEntity" => dbEntities'[i].lots = dbEntities[i].lots
            /\ lastOp'.op \in LotOps =>
                /\ dbEntities'[i].buyerName = dbEntities[i].buyerName
                /\ dbEntities'[i].auctionDate = dbEntities[i].auctionDate
            /\ lastOp'.op = "toggleLotArchive" =>
                /\ Len(dbEntities'[i].lots) = Len(dbEntities[i].lots)
                /\ \A k \in 1..Len(dbEntities[i].lots) :
                    [dbEntities'[i].lots[k] EXCEPT !.isArchived = FALSE]
                        = [dbEntities[i].lots[k] EXCEPT !.isArchived = FALSE]
            /\ lastOp'.op = "handleConfirmDeleteLot" =>
                \A k \in 1..Len(dbEntities'[i].lots) :
                    \E j \in 1..Len(dbEntities[i].lots) :
                        dbEntities'[i].lots[k] = dbEntities[i].lots[j]

\* C6: a step of a handler that runs the reconciliation writes no work-client
\* document and leaves of the entities only what the handler itself writes: an
\* entity edit leaves every lot as it was, a lot handler leaves buyerName and
\* auctionDate, an archive toggle changes nothing of a lot but isArchived, a lot
\* deletion changes no remaining lot, and no other entity changes.
C6_SyncWritesOnlyAdvanceClients == [][C6_Step]_vars

\* the reconciliation wrote the commission of a buyer whose name a work client
\* also has
C6_Witness ==
    /\ Completed(LotOps)
    /\ lastOp.writes >= 2
    /\ CommissionPlaces(dbAdvanceClients, OpEntity.id) # {}
    /\ \E i \in 1..Len(dbWorkClients) : dbWorkClients[i].name = OpEntity.buyerName

C7_Step ==
    (CompletedStep(SyncOps) /\ FindById(dbEntities', lastOp'.entityId).buyerName = "") =>
        /\ Len(dbAdvanceClients') = Len(dbAdvanceClients)
        /\ \A i \in 1..Len(dbAdvanceClients) :
            dbAdvanceClients'[i] =
                [dbAdvanceClients[i] EXCEPT
                    !.transactions = Without(@, lastOp'.entityId)]

\* C7: a reconciliation for an entity with an empty buyerName creates no client
\* and no transaction, whatever the active value; it only removes the
\* transactions of the entity from the clients that hold one.
C7_EmptyBuyerGuard == [][C7_Step]_vars

\* the buyer name of an entity with a positive active value was cleared, and the
\* commission the clients state still shows is gone from the store
C7_Witness ==
    /\ Completed({"editEntity"})
    /\ OpEntity.buyerName = ""
    /\ ExpectedCommission(OpEntity.lots) > 0
    /\ CommissionPlaces(clients, OpEntity.id) # {}
    /\ CommissionPlaces(dbAdvanceClients, OpEntity.id) = {}

\* the clients of coll that hold a transaction carrying entityId
Holders(coll, entityId) == {p[1] : p \in CommissionPlaces(coll, entityId)}

C8_Step ==
    (lastOp'.op \in SyncOps /\ lastOp'.status = "syncFailed") =>
        LET E == FindById(dbEntities', lastOp'.entityId)
            written == {i \in 1..Len(dbAdvanceClients) :
                            dbAdvanceClients'[i] # dbAdvanceClients[i]}
        IN  /\ Len(dbAdvanceClients') = Len(dbAdvanceClients)
            /\ \A i \in written :
                dbAdvanceClients'[i] =
                    [dbAdvanceClients[i] EXCEPT !.transactions = Without(@, E.id)]
            /\ Cardinality(written) = lastOp'.writes - 1
            /\ (/\ E.buyerName # ""
                /\ ExpectedCommission(E.lots) > 0
                /\ Holders(dbAdvanceClients, E.id) # {}
                /\ lastOp'.writes = 1 + Cardinality(Holders(dbAdvanceClients, E.id)))
               => CommissionPlaces(dbAdvanceClients', E.id) = {}

\* C8: when a write of the reconciliation fails, the writes made before it stay
\* and nothing is written after it: the store differs from the one before the
\* handler by the entity write and by the stale removals that went through.  When
\* every stale removal went through and the write for the new buyer failed, no
\* client holds a transaction of E although the commission is positive and
\* buyerName is not empty.
C8_PartialReconciliation == [][C8_Step]_vars

\* the buyer of an entity was changed, the removal from the old buyer was
\* written and the write for the new buyer was rejected
C8_Witness ==
    /\ lastOp.op = "editEntity"
    /\ lastOp.status = "syncFailed"
    /\ lastOp.writes = 2
    /\ HasId(dbEntities, lastOp.entityId)
    /\ OpEntity.buyerName # ""
    /\ ExpectedCommission(OpEntity.lots) > 0
    /\ CommissionPlaces(clients, OpEntity.id) # {}
    /\ CommissionPlaces(dbAdvanceClients, OpEntity.id) = {}

C9_Step ==
    /\ (lastOp'.op = "addPayment" /\ lastOp'.status = "done") =>
        LET id == lastOp'.clientId
            snap == FindById(clients, id).transactions
            stored == FindById(dbAdvanceClients, id).transactions
            post == FindById(dbAdvanceClients', id).transactions
        IN  /\ Len(post) = Len(snap) + 1
            /\ \A k \in 1..Len(snap) :
                [post[k] EXCEPT !.isSettled = TRUE] = [snap[k] EXCEPT !.isSettled = TRUE]
            /\ post[Len(post)].amount < 0
            /\ post[Len(post)].entityId = NoId
            /\ \A k \in 1..Len(stored) :
                (\A j \in 1..Len(snap) : snap[j].id # stored[k].id) =>
                    \A j \in 1..Len(snap) : post[j] # stored[k]
    /\ (lastOp'.op \in LotOps /\ lastOp'.status = "done") =>
        \A i \in 1..Len(dbAdvanceClients) :
            (/\ i <= Len(dbAdvanceClients')
             /\ dbAdvanceClients'[i] # dbAdvanceClients[i]
             /\ HasId(clients, dbAdvanceClients[i].id)) =>
                Without(dbAdvanceClients'[i].transactions, lastOp'.entityId)
                    = Without(FindById(clients, dbAdvanceClients[i].id).transactions,
                              lastOp'.entityId)

\* C9: a handler stores the list it computed from the clients state it was
\* given, whatever the store holds by then.  After addPayment the stored list is
\* the list of the clients state with the payment appended, so a transaction an
\* earlier writer added after that state was read is not in it; after a
\* reconciliation every list it wrote is, apart from the entity's commission,
\* the list of the clients state, so a payment stored in between is lost.
C9_LastWriterWins == [][C9_Step]_vars

\* a payment replaced a list that had changed since it was read, and the
\* commission a reconciliation had stored in between is gone
C9_Witness ==
    /\ lastOp.op = "addPayment"
    /\ lastOp.status = "done"
    /\ lastOp.stale
    /\ \E i \in 1..Len(dbEntities) :
        /\ dbEntities[i].buyerName # ""
        /\ ExpectedCommission(dbEntities[i].lots) > 0
        /\ CommissionPlaces(dbAdvanceClients, dbEntities[i].id) = {}
        /\ \E c \in 1..Len(dbAdvanceClients) :
            /\ dbAdvanceClients[c].id = lastOp.clientId
            /\ dbAdvanceClients[c].name = dbEntities[i].buyerName

\* the sum of the amounts of a transaction list
SumAmounts(list) ==
    LET sum[i \in 0..Len(list)] == IF i = 0 THEN 0 ELSE sum[i-1] + list[i].amount
    IN  sum[Len(list)]

\* the stored document with this id, of either client collection
StoredClientDoc(advance, work, id) ==
    IF HasId(advance, id) THEN FindById(advance, id) ELSE FindById(work, id)

C10_Step ==
    (lastOp'.op = "confirmSettleAndArchive" /\ lastOp'.status = "done") =>
        LET pre == StoredClientDoc(dbAdvanceClients, dbWorkClients, lastOp'.clientId)
            post == StoredClientDoc(dbAdvanceClients', dbWorkClients', lastOp'.clientId)
            B == SumAmounts(pre.transactions)
            n == Len(pre.transactions)
        IN  /\ B # 0
            /\ Len(post.transactions) = n + 1
            /\ SubSeq(post.transactions, 1, n) = pre.transactions
            /\ post.transactions[n + 1].amount = -B
            /\ post.transactions[n + 1].isSettled
            /\ SumAmounts(post.transactions) = 0
            /\ post.isArchived

\* C10: confirmSettleAndArchive on a client whose balance B is not 0 stores the
\* previous list with exactly one transaction appended, of amount -B and
\* settled; the amounts of the stored list sum to 0 and isArchived is true.
C10_SettlementZeroesBalance == [][C10_Step]_vars

\* a client with a purchase and a payment was settled
C10_Witness ==
    /\ lastOp.op = "confirmSettleAndArchive"
    /\ lastOp.status = "done"
    /\ LET c == StoredClientDoc(dbAdvanceClients, dbWorkClients, lastOp.clientId)
       IN  /\ c.isArchived
           /\ Len(c.transactions) >= 3
           /\ c.transactions[Len(c.transactions)].amount # 0
           /\ SumAmounts(c.transactions) = 0

C11_Step ==
    (lastOp'.op = "confirmRestoreClient" /\ lastOp'.status = "done") =>
        LET pre == StoredClientDoc(dbAdvanceClients, dbWorkClients, lastOp'.clientId)
            post == StoredClientDoc(dbAdvanceClients', dbWorkClients', lastOp'.clientId)
        IN  /\ pre.isArchived
            /\ ~post.isArchived
            /\ post.archiveType = "absent"
            /\ post.transactions = pre.transactions
            /\ post.name = pre.name

\* C11: confirmRestoreClient on an archived client stores isArchived false, leaves
\* the document without an archiveType field, and leaves the transaction list
\* as it was.
C11_RestoreClearsArchiveFields == [][C11_Step]_vars

\* a settled client was restored: its list still ends with the settlement
C11_Witness ==
    /\ lastOp.op = "confirmRestoreClient"
    /\ lastOp.status = "done"
    /\ LET c == StoredClientDoc(dbAdvanceClients, dbWorkClients, lastOp.clientId)
       IN  /\ ~c.isArchived
           /\ c.archiveType = "absent"
           /\ Len(c.transactions) >= 2
           /\ c.transactions[Len(c.transactions)].notes.text = "settlement"

\* the lists that hold the elements of list in another order
Reorderings(list) ==
    {[i \in 1..Len(list) |-> list[p[i]]] :
        p \in {q \in [1..Len(list) -> 1..Len(list)] :
                  \A i, j \in 1..Len(list) : q[i] = q[j] => i = j}}

\* the client documents of both collections
StoredClients ==
    {dbAdvanceClients[i] : i \in 1..Len(dbAdvanceClients)}
        \cup {dbWorkClients[i] : i \in 1..Len(dbWorkClients)}

ExampleAmounts == <<[amount |-> 500000], [amount |-> -200000], [amount |-> 150000]>>

\* C12: the balance of a client is the sum of the amounts of its transactions,
\* whatever their order, and 0 for the empty list; [+500, -200, +150] gives 450.
C12_BalanceIsSumOfAmounts ==
    /\ Balance(<<>>) = 0
    /\ Balance(ExampleAmounts) = 450000
    /\ \A other \in Reorderings(ExampleAmounts) : Balance(other) = 450000
    /\ \A c \in StoredClients :
        /\ Balance(c.transactions) = SumAmounts(c.transactions)
        /\ \A other \in Reorderings(c.transactions) :
            Balance(other) = Balance(c.transactions)

\* a client holds a purchase, a payment and a settled entry, with a balance
\* that is not 0
C12_Witness ==
    \E c \in StoredClients :
        /\ Len(c.transactions) >= 3
        /\ \E k \in 1..Len(c.transactions) : c.transactions[k].amount > 0
        /\ \E k \in 1..Len(c.transactions) :
            c.transactions[k].amount < 0 /\ c.transactions[k].isSettled
        /\ Balance(c.transactions) # 0

\* -|a| in thousandths
NegatedMagnitude(a) == IF a < 0 THEN a * 1000 ELSE -(a * 1000)

C13_Step ==
    /\ \A c \in StoredClients, a \in PaymentAmounts, linked \in 0..(MaxTx + 1) :
        LET paid == PaymentTransactions(c.transactions, a, linked)
            paidNegated == PaymentTransactions(c.transactions, -a, linked)
        IN  /\ paid = paidNegated
            /\ paid[Len(paid)].amount = NegatedMagnitude(a)
            /\ paid[Len(paid)].amount <= 0
            /\ paid[Len(paid)].isSettled
    /\ (lastOp'.op = "addPayment" /\ lastOp'.status = "done") =>
        LET post == StoredClientDoc(dbAdvanceClients', dbWorkClients',
                                    lastOp'.clientId).transactions
        IN  /\ post[Len(post)].amount \in {NegatedMagnitude(a) : a \in PaymentAmounts}
            /\ post[Len(post)].amount <= 0
            /\ post[Len(post)].isSettled

\* C13: addPayment with amount a and with amount -a append the same transaction,
\* of amount -|a|, never positive, with isSettled true.
C13_PaymentSignNormalized == [][C13_Step]_vars

\* a payment of 300 was appended to a list that held a purchase
C13_Witness ==
    /\ lastOp.op = "addPayment"
    /\ lastOp.status = "done"
    /\ -300 \in PaymentAmounts /\ 300 \in PaymentAmounts
    /\ LET list == StoredClientDoc(dbAdvanceClients, dbWorkClients,
                                   lastOp.clientId).transactions
       IN  /\ Len(list) >= 2
           /\ list[Len(list)].amount = -300000
           /\ list[Len(list)].isSettled

\* the list addPayment is to store for the list pre when the payment links linked
LinkedResult(pre, post, linked) ==
    /\ Len(post) = Len(pre) + 1
    /\ \A j \in 1..Len(pre) :
        post[j] = IF pre[j].id = linked THEN [pre[j] EXCEPT !.isSettled = TRUE] ELSE pre[j]
    /\ post[Len(post)].isSettled
    /\ post[Len(post)].amount <= 0
    /\ post[Len(post)].entityId = NoId
    /\ \A j \in 1..Len(pre) : post[Len(post)].id # pre[j].id
    /\ (\A j \in 1..Len(pre) : pre[j].id # linked) => SubSeq(post, 1, Len(pre)) = pre

C14_Step ==
    /\ \A c \in StoredClients, a \in PaymentAmounts, linked \in 0..(MaxTx + 1) :
        LinkedResult(c.transactions, PaymentTransactions(c.transactions, a, linked), linked)
    /\ (lastOp'.op = "addPayment" /\ lastOp'.status = "done") =>
        LET pre == StoredClientDoc(dbAdvanceClients, dbWorkClients,
                                   lastOp'.clientId).transactions
            post == StoredClientDoc(dbAdvanceClients', dbWorkClients',
                                    lastOp'.clientId).transactions
        IN  \E linked \in 0..(MaxTx + 1) : LinkedResult(pre, post, linked)

\* C14: addPayment with a linkedTransactionId that matches a transaction of the
\* client sets isSettled of that transaction and changes nothing else of it,
\* appends the payment as a new transaction and leaves the other transactions as
\* they were; with no match the stored list is the old list plus the payment.
C14_LinkingSetsOnlySettled == [][C14_Step]_vars

\* a payment linked to the purchase of the list: the purchase is settled with
\* its amount, the payment follows it
C14_Witness ==
    /\ lastOp.op = "addPayment"
    /\ lastOp.status = "done"
    /\ LET list == StoredClientDoc(dbAdvanceClients, dbWorkClients,
                                   lastOp.clientId).transactions
           snap == StoredClientDoc(clients, workClients, lastOp.clientId).transactions
       IN  /\ Len(list) = Len(snap) + 1
           /\ \E j \in 1..Len(snap) :
               /\ ~snap[j].isSettled
               /\ list[j] = [snap[j] EXCEPT !.isSettled = TRUE]
               /\ list[j].amount > 0

\* the documents of coll that carry the name
Named(coll, name) == {k \in 1..Len(coll) : coll[k].name = name}

\* an entity whose lots are one lot of 10000, active or archived as given
OneLotOfTenThousand(entity, isArchived) ==
    /\ Len(entity.lots) = 1
    /\ entity.lots[1].totalValue = 10000
    /\ entity.lots[1].isArchived = isArchived

\* the client holds exactly the commission of 50 of the entity
HoldsOnlyCommissionOfFifty(client, entityId) ==
    /\ Len(client.transactions) = 1
    /\ client.transactions[1].amount = -50000
    /\ client.transactions[1].entityId = entityId

C15_Step ==
    LET id == lastOp'.entityId
        pre == FindById(dbEntities, id)
        post == FindById(dbEntities', id)
    IN  /\ ( /\ lastOp'.op = "addOrUpdateLot" /\ lastOp'.status = "done"
             /\ dbAdvanceClients = <<>>
             /\ post.buyerName # ""
             /\ OneLotOfTenThousand(post, FALSE) )
            => /\ Len(dbAdvanceClients') = 1
               /\ dbAdvanceClients'[1].name = post.buyerName
               /\ HoldsOnlyCommissionOfFifty(dbAdvanceClients'[1], id)
        /\ ( /\ lastOp'.op = "editEntity" /\ lastOp'.status = "done"
             /\ Len(dbAdvanceClients) = 1
             /\ dbAdvanceClients[1].name = pre.buyerName
             /\ HoldsOnlyCommissionOfFifty(dbAdvanceClients[1], id)
             /\ OneLotOfTenThousand(pre, FALSE)
             /\ post.buyerName \notin {"", pre.buyerName} )
            => /\ Len(dbAdvanceClients') = 2
               /\ \A k \in Named(dbAdvanceClients', pre.buyerName) :
                   /\ dbAdvanceClients'[k].id = dbAdvanceClients[1].id
                   /\ dbAdvanceClients'[k].transactions = <<>>
               /\ \E k \in Named(dbAdvanceClients', post.buyerName) :
                   /\ Named(dbAdvanceClients', post.buyerName) = {k}
                   /\ dbAdvanceClients'[k].id # dbAdvanceClients[1].id
                   /\ HoldsOnlyCommissionOfFifty(dbAdvanceClients'[k], id)
        /\ ( /\ lastOp'.op = "toggleLotArchive" /\ lastOp'.status = "done"
             /\ OneLotOfTenThousand(pre, FALSE)
             /\ OneLotOfTenThousand(post, TRUE) )
            => /\ CommissionPlaces(dbAdvanceClients', id) = {}
               /\ CommissionPlaces(dbWorkClients', id) = {}

\* C15: with no clients and an entity of buyer Ahmed whose one active lot is worth
\* 10000, the reconciliation creates the advance client Ahmed with exactly one
\* transaction, of -50 and of this entity; changing the buyer to Sara leaves Ahmed
\* without a transaction of the entity and creates Sara with exactly one, of -50;
\* archiving the lot leaves no client with a transaction of the entity.
C15_BuyerScenario == [][C15_Step]_vars

\* the end of the scenario: the lot was just archived, the first buyer and the
\* second were both created by the reconciliation and hold nothing, and before
\* the archiving the second buyer held the commission of 50
C15_Witness ==
    /\ lastOp.op = "toggleLotArchive"
    /\ lastOp.status = "done"
    /\ dbWorkClients = <<>>
    /\ Len(dbAdvanceClients) = 2
    /\ \A k \in 1..2 : dbAdvanceClients[k].isBuyer /\ dbAdvanceClients[k].transactions = <<>>
    /\ dbAdvanceClients[1].name # dbAdvanceClients[2].name
    /\ HasId(dbEntities, lastOp.entityId)
    /\ OneLotOfTenThousand(FindById(dbEntities, lastOp.entityId), TRUE)
    /\ \E k \in 1..Len(clients) :
        /\ clients[k].name = FindById(dbEntities, lastOp.entityId).buyerName
        /\ clients[k].id = 2
        /\ HoldsOnlyCommissionOfFifty(clients[k], lastOp.entityId)
    /\ \E k \in 1..Len(clients) : clients[k].id = 1 /\ clients[k].transactions = <<>>

\* the lots after a loading save whose target is the lot of id target, or every
\* lot when target is NoId
LoadedLots(lots, target) ==
    [n \in 1..Len(lots) |->
        IF target = NoId \/ lots[n].id = target
        THEN [id |-> lots[n].id, totalValue |-> lots[n].totalValue,
              value30 |-> lots[n].value30, value70 |-> lots[n].value70,
              is70Paid |-> lots[n].is70Paid, paymentDetails |-> lots[n].paymentDetails,
              isArchived |-> TRUE, loaded |-> TRUE]
        ELSE lots[n]]

C16_Step ==
    (lastOp'.op = "handleLoadingSave" /\ lastOp'.status = "done") =>
        LET pre == FindById(dbEntities, lastOp'.entityId)
            post == FindById(dbEntities', lastOp'.entityId)
        IN  /\ dbAdvanceClients' = dbAdvanceClients
            /\ dbWorkClients' = dbWorkClients
            /\ \A k \in 1..Len(dbAdvanceClients) :
                dbAdvanceClients'[k].transactions = dbAdvanceClients[k].transactions
            /\ \E target \in {NoId} \cup {pre.lots[n].id : n \in 1..Len(pre.lots)} :
                post.lots = LoadedLots(pre.lots, target)
            /\ post.buyerName = pre.buyerName

\* C16: handleLoadingSave sets isArchived (and the loading details) on the target
\* lot, or on every lot when no lot is given, and writes no client document: the
\* transaction list of every client, commissions included, is as before.
C16_LoadingSaveLeavesClients == [][C16_Step]_vars

\* the only active lot was marked loaded and the commission of 50 it gave is kept
C16_Witness ==
    /\ lastOp.op = "handleLoadingSave"
    /\ lastOp.status = "done"
    /\ LET entity == FindById(dbEntities, lastOp.entityId)
       IN  /\ Len(entity.lots) >= 1
           /\ \A n \in 1..Len(entity.lots) : entity.lots[n].isArchived
           /\ \E n \in 1..Len(entity.lots) : entity.lots[n].loaded
           /\ \E n \in 1..Len(FindById(entities, lastOp.entityId).lots) :
               ~FindById(entities, lastOp.entityId).lots[n].isArchived
    /\ \E place \in CommissionPlaces(dbAdvanceClients, lastOp.entityId) :
        dbAdvanceClients[place[1]].transactions[place[2]].amount = -50000

C17_Step ==
    (lastOp'.op = "handleConfirmDelete" /\ lastOp'.status = "done") =>
        /\ dbAdvanceClients' = dbAdvanceClients
        /\ dbWorkClients' = dbWorkClients
        /\ CommissionPlaces(dbAdvanceClients', lastOp'.entityId)
               = CommissionPlaces(dbAdvanceClients, lastOp'.entityId)
        /\ \A i \in 1..Len(dbEntities') : dbEntities'[i].id # lastOp'.entityId
        /\ dbEntities' = SelectSeq(dbEntities, LAMBDA d : d.id # lastOp'.entityId)

\* C17: handleConfirmDelete of an entity removes the entity document only: the
\* transaction list of every client is as before, and a commission transaction
\* of the deleted entity stays where it was.
C17_DeleteEntityLeavesCommission == [][C17_Step]_vars

\* the entity is gone and a client still holds its commission
C17_Witness ==
    /\ lastOp.op = "handleConfirmDelete"
    /\ lastOp.status = "done"
    /\ ~HasId(dbEntities, lastOp.entityId)
    /\ HasId(entities, lastOp.entityId)
    /\ CommissionPlaces(dbAdvanceClients, lastOp.entityId) # {}

\* the lots of every stored entity
StoredLots ==
    UNION {{dbEntities[i].lots[n] : n \in 1..Len(dbEntities[i].lots)} :
              i \in 1..Len(dbEntities)}

\* C18: in every state reached through add lot, edit lot, delete lot, toggle
\* archive, supply save and loading save, every stored lot has
\* value70 = totalValue - value30.
C18_LotSplit ==
    \A lot \in StoredLots : lot.value70 = lot.totalValue - lot.value30

\* a lot that was supplied and loaded was then edited from 0 to 10000, and its
\* value70 is 7000
C18_Witness ==
    /\ lastOp.op = "addOrUpdateLot"
    /\ lastOp.status = "done"
    /\ \E lot \in StoredLots :
        /\ lot.is70Paid /\ lot.loaded
        /\ lot.totalValue = 10000 /\ lot.value30 = 3000 /\ lot.value70 = 7000
        /\ \E n \in 1..Len(FindById(entities, lastOp.entityId).lots) :
            /\ FindById(entities, lastOp.entityId).lots[n].id = lot.id
            /\ FindById(entities, lastOp.entityId).lots[n].value70 = 0

\* the lots <<entity, lot>> of the entities state that are unpaid and whose
\* deadline is strictly after now
UnpaidAhead(now) ==
    {p \in UNION {{<<i, n>> : n \in 1..Len(entities[i].lots)} : i \in 1..Len(entities)} :
        /\ ~entities[p[1]].lots[p[2]].is70Paid
        /\ entities[p[1]].auctionDate + 15 * 24 > now}

\* those of them that are not archived
ActiveUnpaidAhead(now) ==
    {p \in UnpaidAhead(now) : ~entities[p[1]].lots[p[2]].isArchived}

\* the card shows a lot of the candidates with the earliest deadline, and shows
\* nothing exactly when there is no candidate
ShowsEarliest(candidates, now) ==
    LET shown == UpcomingLot(entities, now)
    IN  /\ (shown = <<>>) <=> (candidates = {})
        /\ shown # <<>> =>
            \E p \in candidates :
                /\ shown[1].lot = entities[p[1]].lots[p[2]]
                /\ shown[1].auctionDate = entities[p[1]].auctionDate
                /\ \A q \in candidates :
                    entities[p[1]].auctionDate + 15 <= entities[q[1]].auctionDate + 15

\* C19 as stated: the candidates are all unpaid lots of all entities whose
\* deadline is strictly later than now.
C19_AsStated == \A now \in Nows : ShowsEarliest(UnpaidAhead(now), now)

\* C19: the lot of the dashboard card is, among the lots of all entities that
\* are not archived, have is70Paid false and a deadline (auctionDate + 15 days)
\* strictly later than now, one with the earliest deadline; the card is empty
\* exactly when no lot satisfies these conditions.
C19_EarliestActiveUnpaid == \A now \in Nows : ShowsEarliest(ActiveUnpaidAhead(now), now)

\* two entities of different dates: the one with the earlier deadline has only
\* an archived unpaid lot, and the card shows the lot of the other
C19_Witness ==
    /\ Len(entities) = 2
    /\ entities[1].auctionDate > entities[2].auctionDate
    /\ Len(entities[2].lots) = 1
    /\ entities[2].lots[1].isArchived /\ ~entities[2].lots[1].is70Paid
    /\ UpcomingLot(entities, 240) # <<>>
    /\ UpcomingLot(entities, 240)[1].auctionDate = entities[1].auctionDate
    /\ UpcomingLot(entities, 384) # <<>>
    /\ UpcomingLot(entities, 600) = <<>>

\* the sum of the field of the lots whose index is in the set
RECURSIVE SumOfField(_, _, _)
SumOfField(lots, indices, field) ==
    IF indices = {} THEN 0
    ELSE LET n == CHOOSE x \in indices : TRUE
         IN  lots[n][field] + SumOfField(lots, indices \ {n}, field)

\* C20: over the lots that pass the archive filter, the totals of an entity are
\* the sums of totalValue, value30 and value70, and what remains to supply is
\* the sum of value70 over those of them with is70Paid false; for non-negative
\* values it is at most the total of value70, and it is 0 exactly when every
\* filtered lot with a non-zero value70 is paid.  The dashboard totals are the
\* same sums over the entities together.
C20_EntityAggregates ==
    /\ \A e \in 1..Len(entities) :
        LET lots == entities[e].lots
            filtered == {n \in 1..Len(lots) : ~lots[n].isArchived}
            unpaid == {n \in filtered : ~lots[n].is70Paid}
            totals == EntityAggregates(lots)
        IN  /\ totals.entityTotal = SumOfField(lots, filtered, "totalValue")
            /\ totals.entity30 = SumOfField(lots, filtered, "value30")
            /\ totals.entity70 = SumOfField(lots, filtered, "value70")
            /\ totals.entityRemaining = SumOfField(lots, unpaid, "value70")
            /\ (\A n \in filtered : lots[n].value70 >= 0) =>
                /\ totals.entityRemaining <= totals.entity70
                /\ (totals.entityRemaining = 0) <=>
                       (\A n \in filtered : lots[n].value70 # 0 => lots[n].is70Paid)
    /\ LET sumOver[e \in 0..Len(entities)] ==
               IF e = 0 THEN [entityTotal |-> 0, entity30 |-> 0, entityRemaining |-> 0]
               ELSE [k \in {"entityTotal", "entity30", "entityRemaining"} |->
                        sumOver[e - 1][k] + EntityAggregates(entities[e].lots)[k]]
           dashboard == DashboardTotals(entities)
       IN  /\ dashboard.totalInvoices = sumOver[Len(entities)].entityTotal
           /\ dashboard.remaining30 = sumOver[Len(entities)].entity30
           /\ dashboard.remainingToSupply = sumOver[Len(entities)].entityRemaining

\* an entity with a paid and an unpaid active lot of 7000 each: 7000 of 14000
\* remain; another whose only unpaid lot is archived: nothing remains
C20_Witness ==
    /\ \E e \in 1..Len(entities) :
        /\ EntityAggregates(entities[e].lots).entity70 = 14000
        /\ EntityAggregates(entities[e].lots).entityRemaining = 7000
    /\ \E e \in 1..Len(entities) :
        /\ EntityAggregates(entities[e].lots).entityRemaining = 0
        /\ \E n \in 1..Len(entities[e].lots) :
            /\ entities[e].lots[n].isArchived
            /\ ~entities[e].lots[n].is70Paid
            /\ entities[e].lots[n].value70 > 0
    /\ DashboardTotals(entities).remainingToSupply = 7000

C21_Step ==
    /\ \A c \in StoredClients : c.archiveType # "entities"
    /\ lastOp'.op = "confirmSettleAndArchive" =>
        LET id == lastOp'.clientId
            inAdvance == HasId(dbAdvanceClients, id)
            inWork == HasId(dbWorkClients, id)
        IN  /\ (lastOp'.status = "notFound") <=> (~inAdvance /\ ~inWork)
            /\ lastOp'.status = "notFound" =>
                /\ dbAdvanceClients' = dbAdvanceClients
                /\ dbWorkClients' = dbWorkClients
            /\ (lastOp'.status = "done" /\ inAdvance) =>
                /\ FindById(dbAdvanceClients', id).isArchived
                /\ FindById(dbAdvanceClients', id).archiveType = "advances"
                /\ dbWorkClients' = dbWorkClients
            /\ (lastOp'.status = "done" /\ ~inAdvance) =>
                /\ inWork
                /\ FindById(dbWorkClients', id).isArchived
                /\ FindById(dbWorkClients', id).archiveType = "work"
                /\ dbAdvanceClients' = dbAdvanceClients

\* C21: confirmSettleAndArchive sets archiveType to 'advances' when the id of the
\* client is in the advance clients and to 'work' when it is only in the work
\* clients, writes to that collection and to no other, never sets 'entities',
\* and writes nothing when the id is in neither collection.
C21_ArchiveBucketFollowsCollection == [][C21_Step]_vars

\* a work client was settled into the bucket 'work', and a later settle of a
\* client deleted meanwhile wrote nothing
C21_Witness ==
    /\ lastOp.op = "confirmSettleAndArchive"
    /\ lastOp.status = "notFound"
    /\ ~HasId(dbAdvanceClients, lastOp.clientId)
    /\ ~HasId(dbWorkClients, lastOp.clientId)
    /\ \E k \in 1..Len(dbWorkClients) :
        dbWorkClients[k].isArchived /\ dbWorkClients[k].archiveType = "work"

\* the clients of coll that hold a transaction of the entity and whose name is,
\* or is not, the name given
HoldersNamed(coll, entityId, name, same) ==
    {i \in Holders(coll, entityId) : (coll[i].name = name) <=> same}

\* C22: when two different clients, neither named E.buyerName, both hold a
\* transaction of E, one reconciliation of E removes it from both of them, also
\* when a client named E.buyerName holds a transaction of E.  Stated on the state
\* after a reconciliation that started from fresh state: clients is the list
\* the reconciliation scanned.
C22_AsStated ==
    (lastOp.op \in SyncOps /\ lastOp.status = "done" /\ lastOp.fresh) =>
        LET E == FindById(dbEntities, lastOp.entityId)
            stale == HoldersNamed(clients, E.id, E.buyerName, FALSE)
        IN  \A i \in stale : \A j \in stale :
                i # j =>
                    /\ Holders(<<FindById(dbAdvanceClients, clients[i].id)>>, E.id) = {}
                    /\ Holders(<<FindById(dbAdvanceClients, clients[j].id)>>, E.id) = {}

\* what the scan does: it removes the transaction of E from the clients not
\* named E.buyerName that come before the first client named E.buyerName that
\* holds one, returns at that client, and leaves the later ones as they were
C22_ScanStopsAtBuyerStep ==
    (lastOp'.op \in SyncOps /\ lastOp'.status = "done" /\ clients = dbAdvanceClients) =>
        LET E == FindById(dbEntities', lastOp'.entityId)
            stale == HoldersNamed(dbAdvanceClients, E.id, E.buyerName, FALSE)
            onBuyer == HoldersNamed(dbAdvanceClients, E.id, E.buyerName, TRUE)
        IN  \A i \in stale :
                LET post == FindById(dbAdvanceClients', dbAdvanceClients[i].id)
                IN  IF \E k \in onBuyer : k < i
                    THEN post = dbAdvanceClients[i]
                    ELSE /\ Holders(<<post>>, E.id) = {}
                         /\ post.transactions
                                = Without(dbAdvanceClients[i].transactions, E.id)

C22_ScanStopsAtBuyer == [][C22_ScanStopsAtBuyerStep]_vars

\* the scan met the client named as the buyer between two clients that held a
\* stale transaction of the entity, and the second of them still holds it
C22_Witness ==
    /\ lastOp.op \in SyncOps
    /\ lastOp.status = "done"
    /\ lastOp.fresh
    /\ Len(clients) = 3
    /\ LET E == FindById(dbEntities, lastOp.entityId)
       IN  /\ HoldersNamed(clients, E.id, E.buyerName, FALSE) = {1, 3}
           /\ HoldersNamed(clients, E.id, E.buyerName, TRUE) = {2}
           /\ HoldersNamed(dbAdvanceClients, E.id, E.buyerName, FALSE) = {3}

\* how many documents of coll carry the name
CountNamed(coll, name) == Cardinality(Named(coll, name))

\* the least element of a non-empty set of indices
First(indices) == CHOOSE i \in indices : \A j \in indices : i <= j

C23_Step ==
    (lastOp'.op \in SyncOps /\ lastOp'.status = "done" /\ clients = dbAdvanceClients) =>
        LET E == FindById(dbEntities', lastOp'.entityId)
            named == Named(dbAdvanceClients, E.buyerName)
            added == {i \in 1..Len(dbAdvanceClients') :
                         ~HasId(dbAdvanceClients, dbAdvanceClients'[i].id)}
        IN  /\ \A name \in ClientNames :
                \/ CountNamed(dbAdvanceClients', name) <= CountNamed(dbAdvanceClients, name)
                \/ CountNamed(dbAdvanceClients', name) = 1
            /\ added # {} => named = {}
            /\ ( /\ HoldersNamed(dbAdvanceClients, E.id, E.buyerName, TRUE) = {}
                 /\ ExpectedCommission(E.lots) > 0
                 /\ E.buyerName # "" ) =>
                IF named # {}
                THEN LET pre == dbAdvanceClients[First(named)]
                         post == FindById(dbAdvanceClients', pre.id)
                     IN  /\ added = {}
                         /\ Len(post.transactions) = Len(pre.transactions) + 1
                         /\ SubSeq(post.transactions, 1, Len(pre.transactions))
                                = pre.transactions
                         /\ post.transactions[Len(post.transactions)].entityId = E.id
                         /\ post.transactions[Len(post.transactions)].amount
                                = -ExpectedCommission(E.lots)
                         /\ post.isBuyer
                         /\ \A k \in named \ {First(named)} :
                                FindById(dbAdvanceClients', dbAdvanceClients[k].id)
                                    = dbAdvanceClients[k]
                ELSE /\ Cardinality(added) = 1
                     /\ \A i \in added :
                         /\ dbAdvanceClients'[i].name = E.buyerName
                         /\ dbAdvanceClients'[i].isBuyer
                         /\ Len(dbAdvanceClients'[i].transactions) = 1
                         /\ dbAdvanceClients'[i].transactions[1].entityId = E.id
                         /\ dbAdvanceClients'[i].transactions[1].amount
                                = -ExpectedCommission(E.lots)

\* C23: a reconciliation that starts from the current clients and finds no
\* commission on the buyer, with commission > 0 and a buyer name, appends the
\* commission to the first advance client of that name and sets its isBuyer; it
\* creates a client (isBuyer, exactly one transaction) only when no advance client
\* has the name, so it never adds a client to a name that has one.
C23_AppendOrCreate == [][C23_Step]_vars

\* two clients carried the buyer's name and none held the commission: the first
\* of them has it appended to its purchase, the second is as it was
C23_Witness ==
    /\ lastOp.op \in SyncOps
    /\ lastOp.status = "done"
    /\ lastOp.fresh
    /\ LET E == FindById(dbEntities, lastOp.entityId)
           named == Named(clients, E.buyerName)
       IN  /\ Cardinality(named) = 2
           /\ Holders(clients, E.id) = {}
           /\ Len(dbAdvanceClients) = Len(clients)
           /\ Holders(dbAdvanceClients, E.id) = {First(named)}
           /\ Len(dbAdvanceClients[First(named)].transactions) = 2

C24_Step ==
    (lastOp'.op \in SyncOps /\ lastOp'.status = "done" /\ clients = dbAdvanceClients) =>
        LET E == FindById(dbEntities', lastOp'.entityId)
            onBuyer == HoldersNamed(dbAdvanceClients, E.id, E.buyerName, TRUE)
        IN  (onBuyer # {} /\ ExpectedCommission(E.lots) > 0) =>
                LET b == First(onBuyer)
                    pre == dbAdvanceClients[b]
                    post == FindById(dbAdvanceClients', pre.id)
                    at == First({k \in 1..Len(pre.transactions) :
                                    pre.transactions[k].entityId = E.id})
                IN  /\ Len(dbAdvanceClients') = Len(dbAdvanceClients)
                    /\ Len(post.transactions) = Len(pre.transactions)
                    /\ \A k \in 1..Len(pre.transactions) :
                        k # at => post.transactions[k] = pre.transactions[k]
                    /\ post.transactions[at].id = pre.transactions[at].id
                    /\ post.transactions[at].entityId = E.id
                    /\ post.transactions[at].amount = -ExpectedCommission(E.lots)
                    /\ post.transactions[at].date = E.auctionDate
                    /\ post.transactions[at].isSettled
                    /\ post.isBuyer
                    /\ post.name = pre.name
                    /\ \A k \in (b + 1)..Len(dbAdvanceClients) :
                        dbAdvanceClients'[k] = dbAdvanceClients[k]

\* C24: when the scan finds the transaction of E on a client named E.buyerName
\* and commission > 0, the reconciliation rewrites that transaction where it is,
\* with its id and entityId, amount = -commission, date = E.auctionDate and
\* isSettled true, sets isBuyer of the client, and writes no client that comes
\* later in the scan.
C24_UpdateInPlace == [][C24_Step]_vars

\* the buyer held a commission of 25 of an earlier date before a purchase: it is
\* now of 50 and of the auction date, still before the purchase, and a later
\* client still holds the transaction of the entity it held
C24_Witness ==
    /\ lastOp.op \in SyncOps
    /\ lastOp.status = "done"
    /\ lastOp.fresh
    /\ Len(clients) >= 2
    /\ LET E == FindById(dbEntities, lastOp.entityId)
       IN  /\ clients[1].name = E.buyerName
           /\ Len(clients[1].transactions) = 2
           /\ clients[1].transactions[1].entityId = E.id
           /\ clients[1].transactions[1].amount = -25000
           /\ clients[1].transactions[1].date # E.auctionDate
           /\ dbAdvanceClients[1].transactions[1].amount = -50000
           /\ dbAdvanceClients[1].transactions[1].date = E.auctionDate
           /\ dbAdvanceClients[1].transactions[2] = clients[1].transactions[2]
           /\ 2 \in Holders(clients, E.id)
           /\ dbAdvanceClients[2] = clients[2]

\* this step is the second of two reconciliations of one entity, of the same
\* buyer and a positive commission, that both read the clients state, which
\* holds no transaction of the entity
SecondPassOnSameSnapshot ==
    /\ lastOp.op \in SyncOps /\ lastOp.status = "done" /\ lastOp.fresh
    /\ lastOp'.op \in SyncOps /\ lastOp'.status = "done"
    /\ lastOp'.entityId = lastOp.entityId
    /\ FindById(dbEntities', lastOp.entityId).buyerName
           = FindById(dbEntities, lastOp.entityId).buyerName
    /\ FindById(dbEntities, lastOp.entityId).buyerName # ""
    /\ ExpectedCommission(FindById(dbEntities, lastOp.entityId).lots) > 0
    /\ ExpectedCommission(FindById(dbEntities', lastOp.entityId).lots) > 0
    /\ Holders(clients, lastOp.entityId) = {}

\* C25 as stated: after the second pass the store holds two transactions of the
\* entity.
C25_StepAsStated ==
    SecondPassOnSameSnapshot =>
        Cardinality(CommissionPlaces(dbAdvanceClients', lastOp.entityId)) = 2

C25_AsStated == [][C25_StepAsStated]_vars

C25_Step ==
    SecondPassOnSameSnapshot =>
        LET E == FindById(dbEntities', lastOp.entityId)
            named == Named(clients, E.buyerName)
            added == {i \in 1..Len(dbAdvanceClients') :
                         ~HasId(clients, dbAdvanceClients'[i].id)}
        IN  IF named = {}
            THEN /\ Cardinality(added) = 2
                 /\ \A i \in added :
                     /\ dbAdvanceClients'[i].name = E.buyerName
                     /\ Len(dbAdvanceClients'[i].transactions) = 1
                     /\ dbAdvanceClients'[i].transactions[1].entityId = E.id
                 /\ Cardinality(CommissionPlaces(dbAdvanceClients', E.id)) = 2
            ELSE LET snap == clients[First(named)]
                     post == FindById(dbAdvanceClients', snap.id)
                 IN  /\ added = {}
                     /\ Len(post.transactions) = Len(snap.transactions) + 1
                     /\ SubSeq(post.transactions, 1, Len(snap.transactions))
                            = snap.transactions
                     /\ post.transactions[Len(post.transactions)].entityId = E.id
                     /\ Cardinality(CommissionPlaces(dbAdvanceClients', E.id)) = 1

\* C25: two reconciliations of one entity that read the same clients state and
\* find no commission of the entity each add one.  When no client has the
\* buyer's name each creates a client, and the store then holds two clients of
\* that name with one transaction of the entity each.  When a client has the
\* name both write the list they read plus their transaction to it, the second
\* write replaces the first, and the store then holds one transaction of the
\* entity.
C25_RacingPasses == [][C25_Step]_vars

\* two clients of the buyer's name were created by two passes on a clients state
\* that held neither
C25_Witness ==
    /\ lastOp.op \in SyncOps
    /\ lastOp.status = "done"
    /\ ~lastOp.fresh
    /\ Holders(clients, lastOp.entityId) = {}
    /\ Named(clients, FindById(dbEntities, lastOp.entityId).buyerName) = {}
    /\ Cardinality(Named(dbAdvanceClients,
                         FindById(dbEntities, lastOp.entityId).buyerName)) = 2
    /\ Cardinality(CommissionPlaces(dbAdvanceClients, lastOp.entityId)) = 2

C26_Step ==
    (lastOp'.op \in SyncOps /\ lastOp'.status = "done" /\ clients = dbAdvanceClients) =>
        LET id == lastOp'.entityId
        IN  /\ Len(dbAdvanceClients') >= Len(dbAdvanceClients)
            /\ \A i \in 1..Len(dbAdvanceClients) :
                /\ HasId(dbAdvanceClients', dbAdvanceClients[i].id)
                /\ FindById(dbAdvanceClients', dbAdvanceClients[i].id).name
                       = dbAdvanceClients[i].name
                /\ Without(FindById(dbAdvanceClients', dbAdvanceClients[i].id).transactions, id)
                       = Without(dbAdvanceClients[i].transactions, id)
            /\ \A i \in 1..Len(dbAdvanceClients') :
                ~HasId(dbAdvanceClients, dbAdvanceClients'[i].id) =>
                    Without(dbAdvanceClients'[i].transactions, id) = <<>>
            /\ dbWorkClients' = dbWorkClients

\* C26: a reconciliation of E that starts from the current clients does not add,
\* remove, reorder or change a transaction whose entityId is not E.id (those
\* without entityId among them) on any client, and changes no client's name.
C26_OtherEntriesPreserved == [][C26_Step]_vars

\* a client lost the transaction of the entity and kept the purchase next to
\* it, and the buyer had the commission appended to its purchase
C26_Witness ==
    /\ lastOp.op \in SyncOps
    /\ lastOp.status = "done"
    /\ lastOp.fresh
    /\ \E i \in 1..Len(clients) :
        /\ Len(clients[i].transactions) = 2
        /\ i \in Holders(clients, lastOp.entityId)
        /\ Len(FindById(dbAdvanceClients, clients[i].id).transactions) = 1
        /\ FindById(dbAdvanceClients, clients[i].id).transactions[1].entityId = NoId
    /\ \E i \in 1..Len(clients) :
        /\ Len(clients[i].transactions) = 1
        /\ i \notin Holders(clients, lastOp.entityId)
        /\ Len(FindById(dbAdvanceClients, clients[i].id).transactions) = 2
        /\ FindById(dbAdvanceClients, clients[i].id).transactions[1] = clients[i].transactions[1]

\* the advance clients after one more reconciliation of the entity of the last
\* step, with the entity as stored and the clients state refreshed from the store
SecondRun ==
    syncBuyerCommission(dbAdvanceClients, dbAdvanceClients, 1,
                        FindById(dbEntities, lastOp.entityId), 0, clientIds + 1, 1).db

C27_IdempotentFromOneHolder ==
    (Completed(SyncOps) /\ lastOp.fresh
        /\ Cardinality(Holders(clients, lastOp.entityId)) <= 1)
        => SecondRun = dbAdvanceClients

C28_Step ==
    (lastOp'.op \in SyncOps /\ lastOp'.status = "done" /\ clients = dbAdvanceClients) =>
        LET E == FindById(dbEntities', lastOp'.entityId)
            named == Named(dbAdvanceClients, E.buyerName)
            onBuyer == HoldersNamed(dbAdvanceClients, E.id, E.buyerName, TRUE)
            post(i) == FindById(dbAdvanceClients', dbAdvanceClients[i].id)
        IN  /\ \A i \in 1..Len(dbAdvanceClients) :
                /\ HasId(dbAdvanceClients', dbAdvanceClients[i].id)
                /\ post(i).isArchived = dbAdvanceClients[i].isArchived
                /\ post(i).archiveType = dbAdvanceClients[i].archiveType
            /\ onBuyer = {} =>
                \A i \in Holders(dbAdvanceClients, E.id) :
                    post(i).transactions = Without(dbAdvanceClients[i].transactions, E.id)
            /\ ( /\ onBuyer = {}
                 /\ ExpectedCommission(E.lots) > 0
                 /\ named # {}
                 /\ dbAdvanceClients[First(named)].isArchived ) =>
                LET b == First(named)
                    before == Without(dbAdvanceClients[b].transactions, E.id)
                    after == post(b).transactions
                IN  /\ post(b).isArchived
                    /\ Len(dbAdvanceClients') = Len(dbAdvanceClients)
                    /\ Len(after) = Len(dbAdvanceClients[b].transactions) + 1
                    /\ after[Len(after)].entityId = E.id
                    /\ after[Len(after)].amount = -ExpectedCommission(E.lots)
                    /\ Balance(after) = Balance(dbAdvanceClients[b].transactions)
                                            - ExpectedCommission(E.lots)
                    /\ Balance(dbAdvanceClients[b].transactions) = 0 => Balance(after) # 0

\* C28: syncBuyerCommission scans and writes the advance clients whatever their
\* isArchived flag, which it never writes: a transaction of E is removed from an
\* archived client like from any other, and when the first client named
\* E.buyerName is settled and archived and no client of that name holds a
\* transaction of E, a commission > 0 is appended to that client, which is then
\* still archived and has a balance other than 0.
C28_ArchivedClientsTakePart == [][C28_Step]_vars

\* the commission was appended to a settled, archived client named as the buyer,
\* and taken off an archived client of another name
C28_Witness ==
    /\ Completed(SyncOps)
    /\ lastOp.fresh
    /\ ExpectedCommission(OpEntity.lots) > 0
    /\ \E i \in Named(clients, OpEntity.buyerName) :
        /\ clients[i].isArchived
        /\ Balance(clients[i].transactions) = 0
        /\ Holders(<<clients[i]>>, OpEntity.id) = {}
        /\ FindById(dbAdvanceClients, clients[i].id).isArchived
        /\ Holders(<<FindById(dbAdvanceClients, clients[i].id)>>, OpEntity.id) # {}
        /\ Balance(FindById(dbAdvanceClients, clients[i].id).transactions) # 0
    /\ \E j \in Holders(clients, OpEntity.id) :
        /\ clients[j].isArchived
        /\ Holders(<<FindById(dbAdvanceClients, clients[j].id)>>, OpEntity.id) = {}

\* the advance clients after the next reconciliation of entityData, run once the
\* clients state holds the collection as the step leaves it
NextSyncOf(entityData) ==
    syncBuyerCommission(dbAdvanceClients', dbAdvanceClients', 1, entityData, 0,
                        clientIds' + 1, 1).db

C29_Step ==
    (/\ lastOp'.op = "addOrUpdateTransaction"
     /\ lastOp'.status = "done"
     /\ clients = dbAdvanceClients
     /\ HasId(dbAdvanceClients, lastOp'.clientId)
     /\ Len(FindById(dbAdvanceClients', lastOp'.clientId).transactions)
            = Len(FindById(dbAdvanceClients, lastOp'.clientId).transactions)) =>
        LET pre == FindById(dbAdvanceClients, lastOp'.clientId)
            post == FindById(dbAdvanceClients', lastOp'.clientId)
        IN  /\ \E k \in 1..Len(pre.transactions) :
                /\ post.transactions[k].id = pre.transactions[k].id
                /\ post.transactions[k].entityId = NoId
                /\ \A n \in 1..Len(pre.transactions) :
                    n # k => post.transactions[n] = pre.transactions[n]
            /\ \A c \in 1..Len(dbAdvanceClients) :
                dbAdvanceClients[c].id # pre.id => dbAdvanceClients'[c] = dbAdvanceClients[c]
            /\ \A e \in 1..Len(dbEntities) :
                LET E == dbEntities[e]
                    named == Named(dbAdvanceClients, E.buyerName)
                IN  ( /\ ExpectedCommission(E.lots) > 0
                      /\ named # {}
                      /\ dbAdvanceClients[First(named)].id = pre.id
                      /\ HoldersNamed(dbAdvanceClients, E.id, E.buyerName, TRUE)
                             = {First(named)}
                      /\ Holders(<<post>>, E.id) = {} ) =>
                        LET again == FindById(NextSyncOf(E), pre.id).transactions
                        IN  /\ Len(again) = Len(post.transactions) + 1
                            /\ \A n \in 1..Len(post.transactions) :
                                again[n] = post.transactions[n]
                            /\ again[Len(again)].entityId = E.id
                            /\ again[Len(again)].amount = -ExpectedCommission(E.lots)
                            /\ Balance(again) = Balance(post.transactions)
                                                    - ExpectedCommission(E.lots)

\* C29: addOrUpdateTransaction in edit mode replaces the transaction with the
\* edited id, at its place and under its id, by a record without entityId and
\* leaves every other transaction and client as it was.  When the record edited
\* was the commission of E on the buyer, the next syncBuyerCommission(E) with a
\* commission > 0 finds no transaction of E on the buyer and appends a commission
\* after the edited record, which stays in the list.
C29_EditDropsLink == [][C29_Step]_vars

\* the commission of the entity (id 2, before a purchase with id 1) was edited, and
\* the reconciliation that followed appended a commission behind both records
C29_Witness ==
    /\ Completed(SyncOps)
    /\ lastOp.fresh
    /\ ExpectedCommission(OpEntity.lots) > 0
    /\ \E i \in Named(clients, OpEntity.buyerName) :
        LET before == clients[i].transactions
            after == FindById(dbAdvanceClients, clients[i].id).transactions
        IN  /\ Len(before) = 2
            /\ before[1].id = 2
            /\ before[1].entityId = NoId
            /\ before[1].amount = Money(500)
            /\ before[2].id = 1
            /\ Len(after) = 3
            /\ after[1] = before[1]
            /\ after[3].entityId = OpEntity.id
            /\ after[3].amount = -ExpectedCommission(OpEntity.lots)

\* the days the card counts for its lot
CardDays(computed, now, shift) ==
    getDaysDiff(UpcomingLot(entities, computed)[1].auctionDate, now, shift)

\* C30 as stated: whenever the card is rendered, its lot has auctionDate + 15 days
\* strictly later than now, its days-remaining value is at least 1 and its tag
\* is 'pending' when that value is at most 5 and 'upcoming' otherwise, never
\* 'overdue'.
C30_AsStated ==
    \A computed \in Nows : \A now \in Nows : \A shift \in LocalShifts :
        (computed <= now /\ NextPaymentTag(entities, computed, now, shift) # "none") =>
            LET date == UpcomingLot(entities, computed)[1].auctionDate
                days == CardDays(computed, now, shift)
            IN  /\ date + 15 * 24 > now
                /\ days >= 1
                /\ NextPaymentTag(entities, computed, now, shift)
                       = IF days <= 5 THEN "pending" ELSE "upcoming"

\* C30: a card rendered at the moment its lot was selected, with a local deadline
\* exactly 15 * 24 hours after the auction date, shows a lot whose deadline is
\* strictly later than now, counts at least 1 day and is tagged 'pending' up to
\* 5 days and 'upcoming' above; an unpaid lot whose deadline had passed when the
\* selection was made is never selected.  The selection is kept while the
\* entities state is unchanged: rendered later, the card counts the days from
\* the later moment, and it is tagged 'overdue' exactly when that moment is a
\* whole day or more past the local deadline.  With a local deadline an hour
\* early the count can be 0, never less, at the moment of selection.
C30_TagFollowsRenderTime ==
    \A computed \in Nows : \A now \in Nows : \A shift \in LocalShifts :
        (computed <= now /\ NextPaymentTag(entities, computed, now, shift) # "none") =>
            LET date == UpcomingLot(entities, computed)[1].auctionDate
                days == CardDays(computed, now, shift)
                tag == NextPaymentTag(entities, computed, now, shift)
                late == now - (date + 15 * 24 + shift)
            IN  /\ date + 15 * 24 > computed
                /\ ~UpcomingLot(entities, computed)[1].lot.is70Paid
                /\ (now = computed /\ shift = 0) =>
                    /\ days >= 1
                    /\ (days - 1) * 24 < date + 15 * 24 - now
                    /\ date + 15 * 24 - now <= days * 24
                    /\ tag = IF days <= 5 THEN "pending" ELSE "upcoming"
                /\ now = computed => days >= 0
                /\ (tag = "overdue") <=> (late >= 24)
                /\ (tag = "pending") <=> (late < 24 /\ late >= -(5 * 24))
                /\ (tag = "upcoming") <=> (late < -(5 * 24))

\* the card of one unpaid lot: 'pending' with 1 day in the last hour before the
\* deadline, 'upcoming' with 6 days on day 10, and 'overdue' when the selection
\* of the last hour is rendered on day 18
C30_Witness ==
    /\ NextPaymentTag(entities, 383, 383, 0) = "pending"
    /\ CardDays(383, 383, 0) = 1
    /\ NextPaymentTag(entities, 240, 240, 0) = "upcoming"
    /\ CardDays(240, 240, 0) = 6
    /\ NextPaymentTag(entities, 383, 432, 0) = "overdue"
    /\ CardDays(383, 432, 0) = -2
    /\ NextPaymentTag(entities, 432, 432, 0) = "none"

====
